---- MODULE Spec2Model ----
(***************************************************************************)
(* Model of the managers of the AI coach application                      *)
(* (src/business_logic.py, src/models.py): the progress/streak tracker     *)
(* (ProgressManager), the flashcard review scheduler (FlashcardManager),   *)
(* the resource, project and roadmap managers, and of the storage of the   *)
(* application state in a JSON file (src/persistence.py), of coach         *)
(* processes that share that file and of the optional advisor              *)
(* (src/coach.py, src/ai_coach.py), and of the daily workflow              *)
(* (src/learning_plan/daily_workflow.py).                                  *)
(*                                                                         *)
(* Time is counted in whole hours since the epoch 2024-01-30T00:00.  A     *)
(* "%Y-%m-%d" date string is modelled as the tuple <<y, m, d>> and an      *)
(* isoformat() timestamp as <<y, m, d, h>>: both order like the zero       *)
(* padded strings they stand for (lexicographically), and both have to be  *)
(* parsed back (strptime, fromisoformat) before any arithmetic.            *)
(***************************************************************************)
EXTENDS Integers, Sequences, FiniteSets, TLC

VARIABLES
    now,               \* datetime.now(), in hours since the epoch
    daily_sessions,    \* ProgressState.daily_sessions
    current_streak,    \* ProgressState.current_streak
    longest_streak,    \* ProgressState.longest_streak
    last_session_date, \* ProgressState.last_session_date
    total_hours,       \* ProgressState.total_hours
    decks,             \* FlashcardManager.decks
    roadmap,           \* RoadmapManager.roadmap
    resources,         \* ResourceManager.resources
    github_projects,   \* GitHubProjectManager.projects
    weekly_tips,       \* CoachingTipsManager.tips_list
    state_file,        \* the file data/app_state.json on disk
    workflow,          \* DailyWorkflow: its state and the file current_day.json
    invocations,       \* the coach processes that run side by side
    coaches,           \* one coach for each condition of the advisor
    ret                \* the last call: its name, arguments and return value

vars == <<now, daily_sessions, current_streak, longest_streak,
          last_session_date, total_hours, decks, roadmap, resources,
          github_projects, weekly_tips, state_file, workflow, invocations,
          coaches, ret>>

progress_vars == <<daily_sessions, current_streak, longest_streak,
                   last_session_date, total_hours>>

library_vars == <<resources, github_projects, weekly_tips>>

cli_vars == <<workflow, invocations, coaches>>

(***************************************************************************)
(* Bounds of the model.                                                    *)
(***************************************************************************)
MaxDay == 4          \* the clock of the progress tracker runs over days 0..MaxDay
MaxSessions == 3     \* at most this many session records
MaxStreak == 2       \* streak fields of a loaded document are in 0..MaxStreak
MaxSize == 7         \* decks + cards + reviews + elapsed days of a review scenario

(***************************************************************************)
(* Python values and the calendar.                                         *)
(***************************************************************************)
None == <<>>

HoursPerDay == 24

Epoch == <<2024, 1, 30>>

Max(a, b) == IF a >= b THEN a ELSE b

\* days of month m of the (leap) year 2024
MonthLen(m) == CASE m = 2 -> 29
                 [] m \in {4, 6, 9, 11} -> 30
                 [] OTHER -> 31

RECURSIVE DaysBefore(_)
\* days of the year before the first day of month m
DaysBefore(m) == IF m = 1 THEN 0 ELSE DaysBefore(m - 1) + MonthLen(m - 1)

DayOfYear(s) == DaysBefore(s[2]) + s[3]

RECURSIVE FromDayOfYear(_, _)
\* the <<y, m, d>> of day n of 2024, counting from month m
FromDayOfYear(n, m) ==
    IF n <= MonthLen(m) THEN <<Epoch[1], m, n>>
    ELSE FromDayOfYear(n - MonthLen(m), m + 1)

\* datetime.date(): the calendar day (ordinal since the epoch) of time t
date(t) == t \div HoursPerDay

\* datetime.strftime("%Y-%m-%d")
strftime(t) == FromDayOfYear(DayOfYear(Epoch) + date(t), 1)

\* datetime.strptime(s, "%Y-%m-%d"): midnight of that day
strptime(s) == (DayOfYear(s) - DayOfYear(Epoch)) * HoursPerDay

\* datetime.isoformat()
isoformat(t) == Append(strftime(t), t % HoursPerDay)

\* datetime.fromisoformat(s)
fromisoformat(s) == strptime(<<s[1], s[2], s[3]>>) + s[4]

\* timedelta.days of (a - b)
DaysBetween(a, b) == date(a) - date(b)

RECURSIVE StrLess(_, _)
\* s < t for two strings of equal, zero padded layout
StrLess(s, t) ==
    IF s = <<>> \/ t = <<>> THEN s = <<>> /\ t # <<>>
    ELSE IF Head(s) # Head(t) THEN Head(s) < Head(t)
    ELSE StrLess(Tail(s), Tail(t))

(***************************************************************************)
(* The roadmap of a fresh application state (StorageManager).  Names and   *)
(* descriptions are left out: a task is its task_id and its status.        *)
(***************************************************************************)
WeeklyTask(task_id) == [task_id |-> task_id, status |-> "not_started"]

Week(week_num, tasks) ==
    [week_num |-> week_num, tasks |-> tasks, status |-> "not_started"]

Month(month_num, weeks) ==
    [month_num |-> month_num, weeks |-> weeks, status |-> "not_started"]

Quarter(quarter_num, months) ==
    [quarter_num |-> quarter_num, months |-> months, status |-> "not_started"]

Year(year_num, quarters) ==
    [year_num |-> year_num, quarters |-> quarters, status |-> "not_started"]

\* _create_default_roadmap(): two years of four quarters; only the first two
\* quarters of year 1 hold months
create_default_roadmap ==
    LET m1_1 == Month(1, <<
            Week(1, <<WeeklyTask("w1_t1"), WeeklyTask("w1_t2"), WeeklyTask("w1_t3")>>),
            Week(2, <<WeeklyTask("w2_t1"), WeeklyTask("w2_t2"), WeeklyTask("w2_t3")>>),
            Week(3, <<WeeklyTask("w3_t1"), WeeklyTask("w3_t2"), WeeklyTask("w3_t3")>>),
            Week(4, <<WeeklyTask("w4_t1"), WeeklyTask("w4_t2"), WeeklyTask("w4_t3")>>)>>)
        m1_2 == Month(2, <<
            Week(1, <<WeeklyTask("v1_t1"), WeeklyTask("v1_t2")>>),
            Week(2, <<WeeklyTask("v2_t1"), WeeklyTask("v2_t2")>>),
            Week(3, <<WeeklyTask("v3_t1"), WeeklyTask("v3_t2")>>),
            Week(4, <<WeeklyTask("v4_t1")>>)>>)
        m1_3 == Month(3, <<
            Week(1, <<WeeklyTask("c1_t1"), WeeklyTask("c1_t2")>>),
            Week(2, <<WeeklyTask("c2_t1"), WeeklyTask("c2_t2")>>),
            Week(3, <<WeeklyTask("c3_t1"), WeeklyTask("c3_t2")>>),
            Week(4, <<WeeklyTask("c4_t1"), WeeklyTask("c4_t2")>>)>>)
        m2_1 == Month(1, <<
            Week(1, <<WeeklyTask("lr1"), WeeklyTask("lr2"), WeeklyTask("lr3")>>),
            Week(2, <<WeeklyTask("log1"), WeeklyTask("log2"), WeeklyTask("log3")>>),
            Week(3, <<WeeklyTask("fe1"), WeeklyTask("fe2"), WeeklyTask("fe3")>>),
            Week(4, <<WeeklyTask("em1"), WeeklyTask("em2")>>)>>)
        year1 == Year(1, <<Quarter(1, <<m1_1, m1_2, m1_3>>), Quarter(2, <<m2_1>>),
                           Quarter(3, <<>>), Quarter(4, <<>>)>>)
        year2 == Year(2, <<Quarter(1, <<>>), Quarter(2, <<>>),
                           Quarter(3, <<>>), Quarter(4, <<>>)>>)
    IN  [years |-> <<year1, year2>>]

\* Roadmap(): the dataclass with its defaults
Roadmap == [years |-> <<>>]

\* the state file does not exist
Missing == <<"missing">>

\* a manager built on its own, as the unit tests build it: the other parts of
\* the application state are empty and nothing is stored
Standalone ==
    /\ roadmap = Roadmap
    /\ resources = <<>>
    /\ github_projects = <<>>
    /\ weekly_tips = <<>>
    /\ state_file = Missing

\* the managers are used by one process: there is no daily workflow, no
\* second coach process and no advisor
ManagersOnly ==
    /\ workflow = None
    /\ invocations = None
    /\ coaches = None

(***************************************************************************)
(* ProgressManager.                                                        *)
(***************************************************************************)
\* DailySession(date=..., duration_hours=..., ...); the faulty variant records
\* a negative duration as no time at all
DailySessionNonNegative(d, h) == [date |-> d, duration_hours |-> Max(h, 0)]

DailySession(d, h) == [date |-> d, duration_hours |-> h]

\* sessions_by_date = {s.date: s for s in daily_sessions}; its keys
SessionDates(sessions) == {sessions[i].date : i \in 1..Len(sessions)}

RECURSIVE sorted(_)
\* sorted(sessions_by_date.keys()): ascending as strings
sorted(S) ==
    IF S = {} THEN <<>>
    ELSE LET m == CHOOSE x \in S : \A y \in S : x = y \/ StrLess(x, y)
         IN  <<m>> \o sorted(S \ {m})

\* the gap test of the scan; the faulty variant extends a run over any gap
ConsecutiveAnyGap(prev, curr) == DaysBetween(strptime(curr), strptime(prev)) >= 1

Consecutive(prev, curr) == DaysBetween(strptime(curr), strptime(prev)) = 1

RECURSIVE StreakScan(_, _, _, _)
\* the for loop of _update_streak from index i on, carrying
\* longest_streak and temp_streak
StreakScan(dates, i, longest, temp) ==
    IF i > Len(dates) THEN [longest |-> longest, temp |-> temp]
    ELSE IF i = 1 THEN StreakScan(dates, 2, longest, 1)
    ELSE IF Consecutive(dates[i - 1], dates[i])
         THEN StreakScan(dates, i + 1, longest, temp + 1)
         ELSE StreakScan(dates, i + 1, Max(longest, temp), 1)

\* the line after the loop; the faulty variant forgets the run still open
FinalLongestForgotten(longest, temp) == longest

FinalLongest(longest, temp) == Max(longest, temp)

\* the "still active" test; the faulty variant allows two days of grace
ActiveStreakTwoDays(days_since, temp) ==
    IF days_since \in {0, 1, 2} THEN temp ELSE 0

ActiveStreak(days_since, temp) ==
    IF days_since = 0 THEN temp
    ELSE IF days_since = 1 THEN temp
    ELSE 0

\* the faulty recomputation that keeps the last run as the longest streak
update_streak_last_run(sessions, cur, lon, t) ==
    IF sessions = <<>> THEN [current_streak |-> 0, longest_streak |-> lon]
    ELSE LET dates == sorted(SessionDates(sessions))
             scan == StreakScan(dates, 1, 0, 1)
             last_date == strptime(dates[Len(dates)])
             days_since == DaysBetween(t, last_date)
         IN  [current_streak |-> ActiveStreak(days_since, scan.temp),
              longest_streak |-> scan.temp]

\* _update_streak: the new (current_streak, longest_streak)
update_streak(sessions, cur, lon, t) ==
    IF sessions = <<>> THEN [current_streak |-> 0, longest_streak |-> lon]
    ELSE LET dates == sorted(SessionDates(sessions))
             scan == StreakScan(dates, 1, 0, 1)
             longest == FinalLongest(scan.longest, scan.temp)
             last_date == strptime(dates[Len(dates)])
             days_since == DaysBetween(t, last_date)
         IN  [current_streak |-> ActiveStreak(days_since, scan.temp),
              longest_streak |-> longest]

\* the dates and durations the model draws
Days == 0..MaxDay

DateStrings == {strftime(d * HoursPerDay) : d \in Days}

\* a negative, a zero and a positive duration
Durations == {-1, 0, 2}

Histories ==
    UNION {[1..n -> {DailySession(d, 1) : d \in DateStrings}] : n \in 0..MaxSessions}

\* ProgressManager(ProgressState()) with session records appended directly,
\* as the streak test builds its history
InitProgress ==
    /\ now \in {d * HoursPerDay : d \in Days}
    /\ daily_sessions \in Histories
    /\ current_streak = 0
    /\ longest_streak = 0
    /\ last_session_date = None
    /\ total_hours = 0
    /\ decks = <<>>
    /\ Standalone
    /\ ret = [op |-> "init"]
    /\ ManagersOnly

\* ProgressManager over a ProgressState read from a stored document
InitLoaded ==
    /\ now \in {d * HoursPerDay : d \in Days}
    /\ daily_sessions \in Histories
    /\ current_streak \in 0..MaxStreak
    /\ longest_streak \in 0..MaxStreak
    /\ last_session_date = None
    /\ total_hours = 0
    /\ decks = <<>>
    /\ Standalone
    /\ ret = [op |-> "init"]
    /\ ManagersOnly

\* ProgressManager.log_session(duration_hours, ...); the faulty variant keeps
\* the newest session first
log_session_newest_first(duration_hours) ==
    /\ Len(daily_sessions) < MaxSessions
    /\ LET today == strftime(now)
           sessions == <<DailySession(today, duration_hours)>> \o daily_sessions
           s == update_streak(sessions, current_streak, longest_streak, now)
       IN  /\ daily_sessions' = sessions
           /\ total_hours' = total_hours + duration_hours
           /\ last_session_date' = today
           /\ current_streak' = s.current_streak
           /\ longest_streak' = s.longest_streak
    /\ ret' = [op |-> "log_session", duration_hours |-> duration_hours]
    /\ UNCHANGED <<now, decks,
                 roadmap, library_vars, state_file, cli_vars>>

log_session(duration_hours) ==
    /\ Len(daily_sessions) < MaxSessions
    /\ LET today == strftime(now)
           sessions == Append(daily_sessions, DailySession(today, duration_hours))
           s == update_streak(sessions, current_streak, longest_streak, now)
       IN  /\ daily_sessions' = sessions
           /\ total_hours' = total_hours + duration_hours
           /\ last_session_date' = today
           /\ current_streak' = s.current_streak
           /\ longest_streak' = s.longest_streak
    /\ ret' = [op |-> "log_session", duration_hours |-> duration_hours]
    /\ UNCHANGED <<now, decks,
                 roadmap, library_vars, state_file, cli_vars>>

\* ProgressManager._update_streak(), called on its own
UpdateStreak ==
    /\ LET s == update_streak(daily_sessions, current_streak, longest_streak, now)
       IN  /\ current_streak' = s.current_streak
           /\ longest_streak' = s.longest_streak
    /\ ret' = [op |-> "_update_streak"]
    /\ UNCHANGED <<now, daily_sessions, last_session_date, total_hours, decks,
                 roadmap, library_vars, state_file, cli_vars>>

\* a calendar day passes
NextDay ==
    /\ date(now) < MaxDay
    /\ now' = now + HoursPerDay
    /\ ret' = [op |-> "tick"]
    /\ UNCHANGED <<progress_vars, decks,
                 roadmap, library_vars, state_file, cli_vars>>

LogSession == \E h \in Durations : log_session(h)

NextProgress == LogSession \/ UpdateStreak \/ NextDay

SpecProgress == InitProgress /\ [][NextProgress]_vars

SpecLoaded == InitLoaded /\ [][NextProgress]_vars

\* ProgressManager(ProgressState()): no session yet
InitFresh ==
    /\ now \in {d * HoursPerDay : d \in Days}
    /\ daily_sessions = <<>>
    /\ current_streak = 0
    /\ longest_streak = 0
    /\ last_session_date = None
    /\ total_hours = 0
    /\ decks = <<>>
    /\ Standalone
    /\ ret = [op |-> "init"]
    /\ ManagersOnly

SpecFresh == InitFresh /\ [][NextProgress]_vars

(***************************************************************************)
(* FlashcardManager.                                                       *)
(***************************************************************************)
MasteredDays == 30

EasyDays == 7

HardDays == 1

DifficultHours == 6

Recognized == {"easy", "hard", "difficult", "mastered"}

\* Flashcard(card_id=..., ...) with the defaults of the dataclass
Flashcard(id) ==
    [card_id |-> id, status |-> "new", review_count |-> 0,
     last_reviewed |-> None, next_review |-> None]

\* FlashcardDeck(deck_id=..., ...) with the defaults of the dataclass
FlashcardDeck(id) == [deck_id |-> id, cards |-> <<>>, total_reviews |-> 0]

RECURSIVE AllCards(_)
\* all_cards: the cards of every deck, deck after deck
AllCards(ds) == IF ds = <<>> THEN <<>> ELSE Head(ds).cards \o AllCards(Tail(ds))

\* the tier get_cards_for_review gives a card; the faulty variant puts the
\* cards that are due before the difficult ones
TierDueFirst(card, t) ==
    IF card.status = "new" THEN 0
    ELSE IF card.next_review # None /\ fromisoformat(card.next_review) <= t THEN 1
    ELSE IF card.status = "difficult" THEN 2
    ELSE 3

Tier(card, t) ==
    IF card.status = "new" THEN 0
    ELSE IF card.status = "difficult" THEN 1
    ELSE IF card.next_review # None /\ fromisoformat(card.next_review) <= t THEN 2
    ELSE 3

\* the sort key (x[0], x[1].review_count), compared as tuples; the faulty
\* variant sorts by the tier alone
KeyLessTierOnly(a, b) == a.tier < b.tier

KeyLess(a, b) ==
    \/ a.tier < b.tier
    \/ a.tier = b.tier /\ a.card.review_count < b.card.review_count

RECURSIVE InsertSorted(_, _)
\* x placed behind every element whose key is not greater than its own
InsertSorted(seq, x) ==
    IF seq = <<>> THEN <<x>>
    ELSE IF KeyLess(x, Head(seq)) THEN <<x>> \o seq
    ELSE <<Head(seq)>> \o InsertSorted(Tail(seq), x)

RECURSIVE StableSort(_)
\* list.sort(key=...): a stable sort
StableSort(seq) ==
    IF seq = <<>> THEN <<>>
    ELSE InsertSorted(StableSort(SubSeq(seq, 1, Len(seq) - 1)), seq[Len(seq)])

\* the slice seq[:n] of Python, for any integer n
Slice(seq, n) ==
    IF n >= 0 THEN SubSeq(seq, 1, IF n < Len(seq) THEN n ELSE Len(seq))
    ELSE SubSeq(seq, 1, Max(Len(seq) + n, 0))

\* get_cards_for_review(num_cards) at time t
get_cards_for_review(ds, num_cards, t) ==
    LET all_cards == AllCards(ds)
        due_cards == [i \in 1..Len(all_cards) |->
                         [tier |-> Tier(all_cards[i], t), card |-> all_cards[i]]]
        ordered == StableSort(due_cards)
        head == Slice(ordered, num_cards)
    IN  [i \in 1..Len(head) |-> head[i].card]

\* the status the result table sets; the faulty variant files "hard" under
\* DIFFICULT
ScheduledStatusHardDifficult(status, result) ==
    CASE result = "mastered" -> "mastered"
      [] result = "easy" -> "reviewing"
      [] result = "hard" -> "difficult"
      [] result = "difficult" -> "difficult"
      [] OTHER -> status

ScheduledStatus(status, result) ==
    CASE result = "mastered" -> "mastered"
      [] result = "easy" -> "reviewing"
      [] result = "hard" -> "reviewing"
      [] result = "difficult" -> "difficult"
      [] OTHER -> status

\* the next_review the result table sets; the faulty variant schedules a
\* difficult card six hours back
ScheduledNextReviewBackwards(next_review, result, t) ==
    CASE result = "mastered" -> isoformat(t + MasteredDays * HoursPerDay)
      [] result = "easy" -> isoformat(t + EasyDays * HoursPerDay)
      [] result = "hard" -> isoformat(t + HardDays * HoursPerDay)
      [] result = "difficult" -> isoformat(Max(t - DifficultHours, 0))
      [] OTHER -> next_review

ScheduledNextReview(next_review, result, t) ==
    CASE result = "mastered" -> isoformat(t + MasteredDays * HoursPerDay)
      [] result = "easy" -> isoformat(t + EasyDays * HoursPerDay)
      [] result = "hard" -> isoformat(t + HardDays * HoursPerDay)
      [] result = "difficult" -> isoformat(t + DifficultHours)
      [] OTHER -> next_review

\* the bookkeeping of every review: one more review, made now; the faulty
\* variant counts a review twice
CountedReviewTwice(card, t) ==
    [card EXCEPT !.review_count = @ + 2, !.last_reviewed = isoformat(t)]

CountedReview(card, t) ==
    [card EXCEPT !.review_count = @ + 1, !.last_reviewed = isoformat(t)]

\* the body of mark_card_review for the card found; the faulty variant leaves
\* out the last step, which moves a card that is still NEW to REVIEWING
ReviewedCardStillNew(card, result, t) ==
    [CountedReview(card, t) EXCEPT
        !.status = ScheduledStatus(@, result),
        !.next_review = ScheduledNextReview(@, result, t)]

ReviewedCard(card, result, t) ==
    LET counted == CountedReview(card, t)
        scheduled == [counted EXCEPT
                        !.status = ScheduledStatus(@, result),
                        !.next_review = ScheduledNextReview(@, result, t)]
    IN  IF scheduled.status = "new"
        THEN [scheduled EXCEPT !.status = "reviewing"]
        ELSE scheduled

\* the (deck, card) positions holding card_id, and the first of them in the
\* order of the two loops
CardPositions(ds, card_id) ==
    {p \in (1..Len(ds)) \X (1..Len(AllCards(ds))) :
        /\ p[2] <= Len(ds[p[1]].cards)
        /\ ds[p[1]].cards[p[2]].card_id = card_id}

FirstPosition(P) ==
    CHOOSE p \in P : \A q \in P : p[1] < q[1] \/ (p[1] = q[1] /\ p[2] <= q[2])

\* the deck positions holding deck_id
DeckPositions(ds, deck_id) == {i \in 1..Len(ds) : ds[i].deck_id = deck_id}

\* uuid4: an identifier no deck or card holds yet
NewDeckId(ds) == Len(ds) + 1

NewCardId(ds) == Len(AllCards(ds)) + 1

TotalReviews(ds) ==
    LET RECURSIVE Sum(_)
        Sum(seq) == IF seq = <<>> THEN 0 ELSE Head(seq).review_count + Sum(Tail(seq))
    IN  Sum(AllCards(ds))

Results == Recognized \cup {"medium"}

\* the size of the scenario explored so far
Size == Len(decks) + Len(AllCards(decks)) + TotalReviews(decks) + date(now)

\* the identifiers a caller may pass: every one in use and one that is not
CardIds == 1..(Len(AllCards(decks)) + 1)

DeckIds == 1..(Len(decks) + 1)

\* the limits a caller may pass: a negative one, none, one that cuts the
\* list short and the default
NumCards == {-1, 0, 2, 10}

\* FlashcardManager([]) of a fresh application state
InitCards ==
    /\ now = 0
    /\ daily_sessions = <<>>
    /\ current_streak = 0
    /\ longest_streak = 0
    /\ last_session_date = None
    /\ total_hours = 0
    /\ decks = <<>>
    /\ Standalone
    /\ ret = [op |-> "init"]
    /\ ManagersOnly

\* FlashcardManager.create_deck(topic, description)
create_deck ==
    /\ Size < MaxSize
    /\ LET deck == FlashcardDeck(NewDeckId(decks))
       IN  /\ decks' = Append(decks, deck)
           /\ ret' = [op |-> "create_deck", value |-> deck.deck_id]
    /\ UNCHANGED <<now, progress_vars,
                 roadmap, library_vars, state_file, cli_vars>>

\* FlashcardManager.add_card(deck_id, question, answer)
add_card(deck_id) ==
    /\ Size < MaxSize
    /\ LET P == DeckPositions(decks, deck_id)
       IN  IF P = {}
           THEN /\ decks' = decks
                /\ ret' = [op |-> "add_card", deck_id |-> deck_id, value |-> None]
           ELSE LET i == CHOOSE i \in P : \A j \in P : i <= j
                    card == Flashcard(NewCardId(decks))
                IN  /\ decks' = [decks EXCEPT ![i].cards = Append(@, card)]
                    /\ ret' = [op |-> "add_card", deck_id |-> deck_id,
                               value |-> card.card_id]
    /\ UNCHANGED <<now, progress_vars,
                 roadmap, library_vars, state_file, cli_vars>>

\* the faulty review that counts every review on the first deck
mark_card_review_first_deck(card_id, result) ==
    /\ Size < MaxSize
    /\ LET P == CardPositions(decks, card_id)
       IN  IF P = {}
           THEN /\ decks' = decks
                /\ ret' = [op |-> "mark_card_review", card_id |-> card_id,
                           result |-> result, value |-> FALSE]
           ELSE LET p == FirstPosition(P)
                    reviewed == [decks EXCEPT ![p[1]].cards[p[2]] =
                                    ReviewedCard(@, result, now)]
                IN  /\ decks' = [reviewed EXCEPT ![1].total_reviews = @ + 1]
                    /\ ret' = [op |-> "mark_card_review", card_id |-> card_id,
                               result |-> result, value |-> TRUE]
    /\ UNCHANGED <<now, progress_vars,
                 roadmap, library_vars, state_file, cli_vars>>

\* FlashcardManager.mark_card_review(card_id, result)
mark_card_review(card_id, result) ==
    /\ Size < MaxSize
    /\ LET P == CardPositions(decks, card_id)
       IN  IF P = {}
           THEN /\ decks' = decks
                /\ ret' = [op |-> "mark_card_review", card_id |-> card_id,
                           result |-> result, value |-> FALSE]
           ELSE LET p == FirstPosition(P)
                IN  /\ decks' = [decks EXCEPT
                                   ![p[1]].cards[p[2]] = ReviewedCard(@, result, now),
                                   ![p[1]].total_reviews = @ + 1]
                    /\ ret' = [op |-> "mark_card_review", card_id |-> card_id,
                               result |-> result, value |-> TRUE]
    /\ UNCHANGED <<now, progress_vars,
                 roadmap, library_vars, state_file, cli_vars>>

\* FlashcardManager.get_cards_for_review(num_cards); the faulty variant sorts
\* the cards of every deck in place before it collects them
GetCardsForReviewInPlace(num_cards) ==
    /\ decks' = [i \in 1..Len(decks) |->
                    [decks[i] EXCEPT !.cards =
                        get_cards_for_review(<<decks[i]>>, Len(decks[i].cards), now)]]
    /\ ret' = [op |-> "get_cards_for_review", num_cards |-> num_cards,
               value |-> get_cards_for_review(decks', num_cards, now)]
    /\ UNCHANGED <<now, progress_vars,
                 roadmap, library_vars, state_file, cli_vars>>

GetCardsForReview(num_cards) ==
    /\ ret' = [op |-> "get_cards_for_review", num_cards |-> num_cards,
               value |-> get_cards_for_review(decks, num_cards, now)]
    /\ UNCHANGED <<now, progress_vars, decks,
                 roadmap, library_vars, state_file, cli_vars>>

\* a day passes between two commands
DayPasses ==
    /\ Size < MaxSize
    /\ now' = now + HoursPerDay
    /\ ret' = [op |-> "tick"]
    /\ UNCHANGED <<progress_vars, decks,
                 roadmap, library_vars, state_file, cli_vars>>

AddCard == \E d \in DeckIds : add_card(d)

MarkCardReview == \E c \in CardIds, r \in Results : mark_card_review(c, r)

CardsForReview == \E n \in NumCards : GetCardsForReview(n)

NextCards == create_deck \/ AddCard \/ MarkCardReview \/ CardsForReview \/ DayPasses

SpecCards == InitCards /\ [][NextCards]_vars

(***************************************************************************)
(* ResourceManager and GitHubProjectManager, next to the FlashcardManager. *)
(***************************************************************************)
MaxItems == 3        \* decks + cards + reviews + resources + projects

ResourceStatuses == {"todo", "in_progress", "completed"}

ProjectStatuses == {"planning", "in_progress", "completed"}

valid_features == {"has_readme", "has_docs", "has_tests", "has_demo"}

\* Resource(resource_id=..., ...) with the defaults of the dataclass
Resource(id, t) ==
    [resource_id |-> id, status |-> "todo", added_date |-> isoformat(t),
     completion_date |-> None]

\* GitHubProject(project_id=..., ...) with the defaults of the dataclass
GitHubProject(id, t) ==
    [project_id |-> id, status |-> "planning", created_at |-> isoformat(t),
     last_updated |-> isoformat(t), has_readme |-> FALSE, has_docs |-> FALSE,
     has_tests |-> FALSE, has_demo |-> FALSE]

\* the positions of a list whose records hold id in the field key; the faulty
\* variant takes the last record for any id that is not found
PositionsOrLast(seq, key, id) ==
    LET P == {i \in 1..Len(seq) : seq[i][key] = id}
    IN  IF P = {} /\ seq # <<>> THEN {Len(seq)} ELSE P

Positions(seq, key, id) == {i \in 1..Len(seq) : seq[i][key] = id}

\* the first position of a non-empty set of positions: where the loop returns
First(P) == CHOOSE i \in P : \A j \in P : i <= j

\* the size of the scenario explored so far
Items == Len(decks) + Len(AllCards(decks)) + TotalReviews(decks)
         + Len(resources) + Len(github_projects)

\* the identifiers a caller may pass: every one in use and one that is not
ResourceIds == 1..(Len(resources) + 1)

ProjectIds == 1..(Len(github_projects) + 1)

\* the features a caller may name: one that is valid and one that is not
Features == {"has_tests", "has_blog"}

\* the three managers over the lists of a fresh application state
InitManagers ==
    /\ now = 0
    /\ daily_sessions = <<>>
    /\ current_streak = 0
    /\ longest_streak = 0
    /\ last_session_date = None
    /\ total_hours = 0
    /\ decks = <<>>
    /\ Standalone
    /\ ret = [op |-> "init"]
    /\ ManagersOnly

\* ResourceManager.add_resource(...)
add_resource ==
    /\ Items < MaxItems
    /\ LET resource == Resource(Len(resources) + 1, now)
       IN  /\ resources' = Append(resources, resource)
           /\ ret' = [op |-> "add_resource", value |-> resource.resource_id]
    /\ UNCHANGED <<now, progress_vars, decks, roadmap, github_projects,
                   weekly_tips, state_file, cli_vars>>

\* ResourceManager.mark_resource_status(resource_id, status)
mark_resource_status(resource_id, status) ==
    /\ LET P == Positions(resources, "resource_id", resource_id)
       IN  IF P = {}
           THEN /\ resources' = resources
                /\ ret' = [op |-> "mark_resource_status", id |-> resource_id,
                           value |-> FALSE]
           ELSE LET i == First(P)
                    marked == [resources[i] EXCEPT !.status = status]
                IN  /\ resources' = [resources EXCEPT ![i] =
                           IF status = "completed"
                           THEN [marked EXCEPT !.completion_date = isoformat(now)]
                           ELSE marked]
                    /\ ret' = [op |-> "mark_resource_status", id |-> resource_id,
                               value |-> TRUE]
    /\ UNCHANGED <<now, progress_vars, decks, roadmap, github_projects,
                   weekly_tips, state_file, cli_vars>>

\* GitHubProjectManager.add_project(...)
add_project ==
    /\ Items < MaxItems
    /\ LET project == GitHubProject(Len(github_projects) + 1, now)
       IN  /\ github_projects' = Append(github_projects, project)
           /\ ret' = [op |-> "add_project", value |-> project.project_id]
    /\ UNCHANGED <<now, progress_vars, decks, roadmap, resources, weekly_tips,
                   state_file, cli_vars>>

\* GitHubProjectManager.update_project_status(project_id, status)
update_project_status(project_id, status) ==
    /\ LET P == Positions(github_projects, "project_id", project_id)
       IN  IF P = {}
           THEN /\ github_projects' = github_projects
                /\ ret' = [op |-> "update_project_status", id |-> project_id,
                           value |-> FALSE]
           ELSE /\ github_projects' = [github_projects EXCEPT ![First(P)] =
                       [@ EXCEPT !.status = status,
                                 !.last_updated = isoformat(now)]]
                /\ ret' = [op |-> "update_project_status", id |-> project_id,
                           value |-> TRUE]
    /\ UNCHANGED <<now, progress_vars, decks, roadmap, resources, weekly_tips,
                   state_file, cli_vars>>

\* GitHubProjectManager.add_project_feature(project_id, feature, value)
add_project_feature(project_id, feature, value) ==
    /\ LET P == Positions(github_projects, "project_id", project_id)
       IN  IF feature \notin valid_features \/ P = {}
           THEN /\ github_projects' = github_projects
                /\ ret' = [op |-> "add_project_feature", id |-> project_id,
                           feature |-> feature, value |-> FALSE]
           ELSE /\ github_projects' = [github_projects EXCEPT ![First(P)] =
                       [@ EXCEPT ![feature] = value,
                                 !.last_updated = isoformat(now)]]
                /\ ret' = [op |-> "add_project_feature", id |-> project_id,
                           feature |-> feature, value |-> TRUE]
    /\ UNCHANGED <<now, progress_vars, decks, roadmap, resources, weekly_tips,
                   state_file, cli_vars>>

\* the flashcard operations within the size of the scenario
CreateDeck == Items < MaxItems /\ create_deck

AddCardToDeck == Items < MaxItems /\ \E d \in DeckIds : add_card(d)

ReviewCard ==
    Items < MaxItems /\ \E c \in CardIds, r \in Results : mark_card_review(c, r)

MarkResourceStatus ==
    \E r \in ResourceIds, s \in ResourceStatuses : mark_resource_status(r, s)

UpdateProjectStatus ==
    \E p \in ProjectIds, s \in ProjectStatuses : update_project_status(p, s)

AddProjectFeature ==
    \E p \in ProjectIds, f \in Features, v \in BOOLEAN :
        add_project_feature(p, f, v)

NextManagers ==
    \/ CreateDeck \/ AddCardToDeck \/ ReviewCard
    \/ add_resource \/ MarkResourceStatus
    \/ add_project \/ UpdateProjectStatus \/ AddProjectFeature

SpecManagers == InitManagers /\ [][NextManagers]_vars

(***************************************************************************)
(* StorageManager.  A JSON value is a tagged tuple (null, a number, a       *)
(* string, a boolean), a sequence (a list) or a record (an object); the     *)
(* state file is missing, unreadable, holds text that is no JSON, or holds  *)
(* the text of a JSON document.                                             *)
(***************************************************************************)
MaxStored == 4       \* sessions + decks + cards + reviews + resources + projects

JsonNull == <<"null">>

JsonNumber(n) == <<"number", n>>

JsonString(s) == <<"string", s>>

JsonBool(b) == <<"bool", b>>

\* an Optional[str] as json.dump writes it
JsonOptional(s) == IF s = None THEN JsonNull ELSE JsonString(s)

\* the Python value json.load gives for a JSON scalar
PyValue(j) == IF j = JsonNull THEN None ELSE j[2]

\* dict.get(key, default)
Get(data, key, default) == IF key \in DOMAIN data THEN data[key] ELSE default

\* AppState and ProgressState, as the managers share them
ProgressState ==
    [daily_sessions |-> daily_sessions, current_streak |-> current_streak,
     longest_streak |-> longest_streak, last_session_date |-> last_session_date,
     total_hours |-> total_hours]

AppState ==
    [roadmap |-> roadmap, progress |-> ProgressState, resources |-> resources,
     flashcard_decks |-> decks, github_projects |-> github_projects,
     weekly_tips |-> weekly_tips]

\* the dict of each level of _serialize_roadmap
serialize_task(t) ==
    [task_id |-> JsonString(t.task_id), status |-> JsonString(t.status)]

serialize_week(w) ==
    [week_num |-> JsonNumber(w.week_num), status |-> JsonString(w.status),
     tasks |-> [i \in 1..Len(w.tasks) |-> serialize_task(w.tasks[i])]]

serialize_month(m) ==
    [month_num |-> JsonNumber(m.month_num), status |-> JsonString(m.status),
     weeks |-> [i \in 1..Len(m.weeks) |-> serialize_week(m.weeks[i])]]

serialize_quarter(q) ==
    [quarter_num |-> JsonNumber(q.quarter_num), status |-> JsonString(q.status),
     months |-> [i \in 1..Len(q.months) |-> serialize_month(q.months[i])]]

serialize_year(y) ==
    [year_num |-> JsonNumber(y.year_num), status |-> JsonString(y.status),
     quarters |-> [i \in 1..Len(y.quarters) |-> serialize_quarter(y.quarters[i])]]

serialize_roadmap(rm) ==
    [years |-> [i \in 1..Len(rm.years) |-> serialize_year(rm.years[i])]]

serialize_progress(progress) ==
    [daily_sessions |-> [i \in 1..Len(progress.daily_sessions) |->
        [date |-> JsonString(progress.daily_sessions[i].date),
         duration_hours |-> JsonNumber(progress.daily_sessions[i].duration_hours)]],
     current_streak |-> JsonNumber(progress.current_streak),
     longest_streak |-> JsonNumber(progress.longest_streak),
     last_session_date |-> JsonOptional(progress.last_session_date),
     total_hours |-> JsonNumber(progress.total_hours)]

serialize_resource(resource) ==
    [resource_id |-> JsonNumber(resource.resource_id),
     status |-> JsonString(resource.status),
     added_date |-> JsonString(resource.added_date),
     completion_date |-> JsonOptional(resource.completion_date)]

serialize_card(c) ==
    [card_id |-> JsonNumber(c.card_id),
     status |-> JsonString(c.status),
     review_count |-> JsonNumber(c.review_count),
     last_reviewed |-> JsonOptional(c.last_reviewed),
     next_review |-> JsonOptional(c.next_review)]

serialize_deck(deck) ==
    [deck_id |-> JsonNumber(deck.deck_id),
     cards |-> [i \in 1..Len(deck.cards) |-> serialize_card(deck.cards[i])],
     total_reviews |-> JsonNumber(deck.total_reviews)]

serialize_project(project) ==
    [project_id |-> JsonNumber(project.project_id),
     status |-> JsonString(project.status),
     created_at |-> JsonString(project.created_at),
     last_updated |-> JsonString(project.last_updated),
     has_readme |-> JsonBool(project.has_readme),
     has_docs |-> JsonBool(project.has_docs),
     has_tests |-> JsonBool(project.has_tests),
     has_demo |-> JsonBool(project.has_demo)]

serialize_tip(tip) ==
    [tip_id |-> JsonNumber(tip.tip_id), week |-> JsonNumber(tip.week),
     category |-> JsonString(tip.category)]

serialize_state(state) ==
    [roadmap |-> serialize_roadmap(state.roadmap),
     progress |-> serialize_progress(state.progress),
     resources |-> [i \in 1..Len(state.resources) |->
                        serialize_resource(state.resources[i])],
     flashcard_decks |-> [i \in 1..Len(state.flashcard_decks) |->
                        serialize_deck(state.flashcard_decks[i])],
     github_projects |-> [i \in 1..Len(state.github_projects) |->
                        serialize_project(state.github_projects[i])],
     weekly_tips |-> [i \in 1..Len(state.weekly_tips) |->
                        serialize_tip(state.weekly_tips[i])]]

\* the object of each level of _deserialize_roadmap
deserialize_task(t) ==
    [task_id |-> PyValue(t.task_id),
     status |-> PyValue(Get(t, "status", JsonString("not_started")))]

deserialize_week(w_data) ==
    LET tasks == Get(w_data, "tasks", <<>>)
    IN  [week_num |-> PyValue(w_data.week_num),
         tasks |-> [i \in 1..Len(tasks) |-> deserialize_task(tasks[i])],
         status |-> PyValue(Get(w_data, "status", JsonString("not_started")))]

deserialize_month(m_data) ==
    LET weeks == Get(m_data, "weeks", <<>>)
    IN  [month_num |-> PyValue(m_data.month_num),
         weeks |-> [i \in 1..Len(weeks) |-> deserialize_week(weeks[i])],
         status |-> PyValue(Get(m_data, "status", JsonString("not_started")))]

deserialize_quarter(q_data) ==
    LET months == Get(q_data, "months", <<>>)
    IN  [quarter_num |-> PyValue(q_data.quarter_num),
         months |-> [i \in 1..Len(months) |-> deserialize_month(months[i])],
         status |-> PyValue(Get(q_data, "status", JsonString("not_started")))]

deserialize_year(y_data) ==
    LET quarters == Get(y_data, "quarters", <<>>)
    IN  [year_num |-> PyValue(y_data.year_num),
         quarters |-> [i \in 1..Len(quarters) |-> deserialize_quarter(quarters[i])],
         status |-> PyValue(Get(y_data, "status", JsonString("not_started")))]

deserialize_roadmap(data) ==
    LET years == Get(data, "years", <<>>)
    IN  [years |-> [i \in 1..Len(years) |-> deserialize_year(years[i])]]

deserialize_progress(data) ==
    LET stored == Get(data, "daily_sessions", <<>>)
    IN  [daily_sessions |-> [i \in 1..Len(stored) |->
            [date |-> PyValue(stored[i].date),
             duration_hours |-> PyValue(stored[i].duration_hours)]],
         current_streak |-> PyValue(Get(data, "current_streak", JsonNumber(0))),
         longest_streak |-> PyValue(Get(data, "longest_streak", JsonNumber(0))),
         last_session_date |-> PyValue(Get(data, "last_session_date", JsonNull)),
         total_hours |-> PyValue(Get(data, "total_hours", JsonNumber(0)))]

deserialize_resource(data) ==
    [resource_id |-> PyValue(data.resource_id),
     status |-> PyValue(Get(data, "status", JsonString("todo"))),
     added_date |-> PyValue(data.added_date),
     completion_date |-> PyValue(Get(data, "completion_date", JsonNull))]

\* a stored card read back; the faulty variant does not read the stored
\* next_review
deserialize_card_unscheduled(c) ==
    [card_id |-> PyValue(c.card_id),
     status |-> PyValue(Get(c, "status", JsonString("new"))),
     review_count |-> PyValue(Get(c, "review_count", JsonNumber(0))),
     last_reviewed |-> PyValue(Get(c, "last_reviewed", JsonNull)),
     next_review |-> None]

deserialize_card(c) ==
    [card_id |-> PyValue(c.card_id),
     status |-> PyValue(Get(c, "status", JsonString("new"))),
     review_count |-> PyValue(Get(c, "review_count", JsonNumber(0))),
     last_reviewed |-> PyValue(Get(c, "last_reviewed", JsonNull)),
     next_review |-> PyValue(Get(c, "next_review", JsonNull))]

deserialize_deck(data) ==
    LET cards == Get(data, "cards", <<>>)
    IN  [deck_id |-> PyValue(data.deck_id),
         cards |-> [i \in 1..Len(cards) |-> deserialize_card(cards[i])],
         total_reviews |-> PyValue(Get(data, "total_reviews", JsonNumber(0)))]

deserialize_project(data) ==
    [project_id |-> PyValue(data.project_id),
     status |-> PyValue(Get(data, "status", JsonString("planning"))),
     created_at |-> PyValue(data.created_at),
     last_updated |-> PyValue(data.last_updated),
     has_readme |-> PyValue(Get(data, "has_readme", JsonBool(FALSE))),
     has_docs |-> PyValue(Get(data, "has_docs", JsonBool(FALSE))),
     has_tests |-> PyValue(Get(data, "has_tests", JsonBool(FALSE))),
     has_demo |-> PyValue(Get(data, "has_demo", JsonBool(FALSE)))]

deserialize_tip(data) ==
    [tip_id |-> PyValue(data.tip_id), week |-> PyValue(data.week),
     category |-> PyValue(data.category)]

deserialize_state(data) ==
    LET stored_resources == Get(data, "resources", <<>>)
        stored_decks == Get(data, "flashcard_decks", <<>>)
        stored_projects == Get(data, "github_projects", <<>>)
        stored_tips == Get(data, "weekly_tips", <<>>)
    IN  [roadmap |-> deserialize_roadmap(Get(data, "roadmap", <<>>)),
         progress |-> deserialize_progress(Get(data, "progress", <<>>)),
         resources |-> [i \in 1..Len(stored_resources) |->
                            deserialize_resource(stored_resources[i])],
         flashcard_decks |-> [i \in 1..Len(stored_decks) |->
                            deserialize_deck(stored_decks[i])],
         github_projects |-> [i \in 1..Len(stored_projects) |->
                            deserialize_project(stored_projects[i])],
         weekly_tips |-> [i \in 1..Len(stored_tips) |->
                            deserialize_tip(stored_tips[i])]]

\* _create_default_state()
create_default_state ==
    [roadmap |-> create_default_roadmap,
     progress |-> [daily_sessions |-> <<>>, current_streak |-> 0,
                   longest_streak |-> 0, last_session_date |-> None,
                   total_hours |-> 0],
     resources |-> <<>>, flashcard_decks |-> <<>>, github_projects |-> <<>>,
     weekly_tips |-> <<>>]

\* the contents of the state file
Unreadable == <<"unreadable">>

Garbled == <<"garbled">>

\* json.dump(data, f): the text of the document
json_dump(data) == <<"json", data>>

\* open + json.load: the document of a text, or the exception raised
json_load(file) ==
    IF file[1] = "json" THEN [raised |-> FALSE, data |-> file[2]]
    ELSE [raised |-> TRUE]

\* the data directory denies access to the file it holds
Inaccessible == <<"inaccessible">>

\* state_file.exists(): stat() of a file in a directory that denies access
\* fails with EACCES, which exists() passes on as PermissionError or answers
\* with False, depending on the Python version
exists(file) ==
    CASE file = Missing -> {"False"}
      [] file = Inaccessible -> {"False", "PermissionError"}
      [] OTHER -> {"True"}

\* load_state(), given the outcome of exists()
load_state(file, found) ==
    IF found = "PermissionError" THEN [raised |-> TRUE]
    ELSE IF found = "False"
    THEN [raised |-> FALSE, state |-> create_default_state]
    ELSE LET loaded == json_load(file)
         IN  IF loaded.raised
             THEN [raised |-> FALSE, state |-> create_default_state]
             ELSE [raised |-> FALSE, state |-> deserialize_state(loaded.data)]

\* the size of the scenario explored so far
Stored == Len(daily_sessions) + Items

\* the text "{}": a JSON document that holds nothing
EmptyDocument == json_dump(<<>>)

\* a coach process that started without a state file
InitStorage ==
    /\ now = 0
    /\ state_file = Missing
    /\ roadmap = create_default_state.roadmap
    /\ daily_sessions = create_default_state.progress.daily_sessions
    /\ current_streak = create_default_state.progress.current_streak
    /\ longest_streak = create_default_state.progress.longest_streak
    /\ last_session_date = create_default_state.progress.last_session_date
    /\ total_hours = create_default_state.progress.total_hours
    /\ resources = create_default_state.resources
    /\ decks = create_default_state.flashcard_decks
    /\ github_projects = create_default_state.github_projects
    /\ weekly_tips = create_default_state.weekly_tips
    /\ ret = [op |-> "init"]
    /\ ManagersOnly

\* StorageManager.load_state() when a coach process starts: the loaded state
\* becomes the state of the managers; an exception that leaves load_state
\* ends the process with the state file as it is
LoadState ==
    /\ \E found \in exists(state_file) :
       LET loaded == load_state(state_file, found)
       IN  IF loaded.raised
           THEN /\ ret' = [op |-> "load_state", raised |-> TRUE]
                /\ UNCHANGED <<roadmap, progress_vars, decks, library_vars>>
           ELSE /\ roadmap' = loaded.state.roadmap
                /\ daily_sessions' = loaded.state.progress.daily_sessions
                /\ current_streak' = loaded.state.progress.current_streak
                /\ longest_streak' = loaded.state.progress.longest_streak
                /\ last_session_date' = loaded.state.progress.last_session_date
                /\ total_hours' = loaded.state.progress.total_hours
                /\ resources' = loaded.state.resources
                /\ decks' = loaded.state.flashcard_decks
                /\ github_projects' = loaded.state.github_projects
                /\ weekly_tips' = loaded.state.weekly_tips
                /\ ret' = [op |-> "load_state", raised |-> FALSE]
    /\ UNCHANGED <<now, state_file, cli_vars>>

\* StorageManager.save_state(state): the write succeeds, or open() fails and
\* the file is as before, or the write fails part of the way and leaves text
\* that is no JSON; the exception is caught and printed
SaveState ==
    /\ \E written \in {"all", "nothing", "part"} :
        /\ state_file = Inaccessible => written = "nothing"
        /\ state_file' = CASE written = "all" -> json_dump(serialize_state(AppState))
                           [] written = "nothing" -> state_file
                           [] written = "part" -> Garbled
        /\ ret' = [op |-> "save_state", raised |-> FALSE, written |-> written]
    /\ UNCHANGED <<now, roadmap, progress_vars, decks, library_vars,
                   cli_vars>>

\* the state file is removed, loses its read permission, is overwritten by
\* something else, or its directory loses its permissions
Damage ==
    /\ state_file' \in {Missing, Unreadable, Garbled, EmptyDocument, Inaccessible}
                        \ {state_file}
    /\ ret' = [op |-> "damage"]
    /\ UNCHANGED <<now, roadmap, progress_vars, decks, library_vars,
                   cli_vars>>

\* the commands of the coach within the size of the scenario
StoredSession == Stored < MaxStored /\ log_session(2)

StoredDeck == Stored < MaxStored /\ create_deck

StoredCard == Stored < MaxStored /\ \E d \in 1..Len(decks) : add_card(d)

StoredReview ==
    /\ Stored < MaxStored
    /\ \E c \in 1..Len(AllCards(decks)), r \in {"easy", "difficult"} :
          mark_card_review(c, r)

StoredResource == Stored < MaxStored /\ add_resource

StoredProject == Stored < MaxStored /\ add_project

NextStorage ==
    \/ StoredSession \/ StoredDeck \/ StoredCard \/ StoredReview
    \/ StoredResource \/ StoredProject
    \/ SaveState \/ LoadState \/ Damage

SpecStorage == InitStorage /\ [][NextStorage]_vars

(***************************************************************************)
(* RoadmapManager.  A task is addressed by its path: the positions of its  *)
(* year, quarter, month, week and of the task in the week.                 *)
(***************************************************************************)
WeekAt(rm, p) == rm.years[p[1]].quarters[p[2]].months[p[3]].weeks[p[4]]

TaskAt(rm, p) == WeekAt(rm, p).tasks[p[5]]

\* the paths of all tasks of the roadmap
TaskPaths(rm) ==
    UNION {UNION {UNION {UNION {
        {<<y, q, m, w, t>> :
            t \in 1..Len(rm.years[y].quarters[q].months[m].weeks[w].tasks)} :
        w \in 1..Len(rm.years[y].quarters[q].months[m].weeks)} :
        m \in 1..Len(rm.years[y].quarters[q].months)} :
        q \in 1..Len(rm.years[y].quarters)} :
        y \in 1..Len(rm.years)}

\* the tasks of the roadmap that are COMPLETED, as paths
Done(rm) == {p \in TaskPaths(rm) : TaskAt(rm, p).status = "completed"}

RECURSIVE PathLess(_, _)
\* the order in which the five nested loops reach the tasks
PathLess(p, r) ==
    /\ p # <<>>
    /\ \/ Head(p) < Head(r)
       \/ Head(p) = Head(r) /\ PathLess(Tail(p), Tail(r))

\* the first task the loops reach among those at the paths P
FirstPath(P) == CHOOSE p \in P : \A r \in P \ {p} : PathLess(p, r)

\* all(x.status == COMPLETED for x in items)
AllCompleted(items) == \A i \in 1..Len(items) : items[i].status = "completed"

\* task.status = COMPLETED for the task at path p; the faulty variant completes
\* every task of its week
CompletedWeek(rm, p) ==
    [rm EXCEPT !.years[p[1]].quarters[p[2]].months[p[3]].weeks[p[4]].tasks =
        [t \in 1..Len(@) |-> [@[t] EXCEPT !.status = "completed"]]]

Completed(rm, p) ==
    [rm EXCEPT !.years[p[1]].quarters[p[2]].months[p[3]].weeks[p[4]]
                .tasks[p[5]].status = "completed"]

\* the faulty bookkeeping that completes the month together with the week
update_parent_status_with_week(rm, p) ==
    IF AllCompleted(WeekAt(rm, p).tasks)
    THEN [rm EXCEPT
            !.years[p[1]].quarters[p[2]].months[p[3]].weeks[p[4]].status =
                "completed",
            !.years[p[1]].quarters[p[2]].months[p[3]].status = "completed"]
    ELSE rm

\* _update_parent_status(week, month, quarter, year) for the parents on path p
update_parent_status(rm, p) ==
    LET y == p[1]
        q == p[2]
        m == p[3]
        w == p[4]
        rm1 == IF AllCompleted(rm.years[y].quarters[q].months[m].weeks[w].tasks)
               THEN [rm EXCEPT !.years[y].quarters[q].months[m].weeks[w].status =
                                    "completed"]
               ELSE rm
        rm2 == IF AllCompleted(rm1.years[y].quarters[q].months[m].weeks)
               THEN [rm1 EXCEPT !.years[y].quarters[q].months[m].status = "completed"]
               ELSE rm1
        rm3 == IF AllCompleted(rm2.years[y].quarters[q].months)
               THEN [rm2 EXCEPT !.years[y].quarters[q].status = "completed"]
               ELSE rm2
    IN  IF AllCompleted(rm3.years[y].quarters)
        THEN [rm3 EXCEPT !.years[y].status = "completed"]
        ELSE rm3

\* the task ids a caller may pass: the tasks of the month "Linear Algebra",
\* a task of another month, a task of another quarter and an id of no task
TaskIds ==
    {"v1_t1", "v1_t2", "v2_t1", "v2_t2", "v3_t1", "v3_t2", "v4_t1",
     "w1_t1", "em2", "w9_t9"}

\* RoadmapManager(StorageManager()._create_default_roadmap())
InitRoadmap ==
    /\ now = 0
    /\ daily_sessions = <<>>
    /\ current_streak = 0
    /\ longest_streak = 0
    /\ last_session_date = None
    /\ total_hours = 0
    /\ decks = <<>>
    /\ roadmap = create_default_roadmap
    /\ resources = <<>>
    /\ github_projects = <<>>
    /\ weekly_tips = <<>>
    /\ state_file = Missing
    /\ ret = [op |-> "init"]
    /\ ManagersOnly

\* RoadmapManager.mark_task_complete(task_id)
mark_task_complete(task_id) ==
    /\ LET P == {p \in TaskPaths(roadmap) : TaskAt(roadmap, p).task_id = task_id}
       IN  IF P = {}
           THEN /\ roadmap' = roadmap
                /\ ret' = [op |-> "mark_task_complete", task_id |-> task_id,
                           value |-> FALSE]
           ELSE LET p == FirstPath(P)
                IN  /\ roadmap' = update_parent_status(Completed(roadmap, p), p)
                    /\ ret' = [op |-> "mark_task_complete", task_id |-> task_id,
                               value |-> TRUE]
    /\ UNCHANGED <<now, progress_vars, decks, library_vars, state_file,
                   cli_vars>>

MarkTaskComplete == \E task_id \in TaskIds : mark_task_complete(task_id)

\* _calculate_completion(obj): the share, in whole percent, of the direct
\* children of obj (the quarters of a year, the months of a quarter, the
\* weeks of a month, the tasks of a week) that are COMPLETED
calculate_completion(obj) ==
    LET items == IF "quarters" \in DOMAIN obj THEN obj.quarters
                 ELSE IF "months" \in DOMAIN obj THEN obj.months
                 ELSE IF "weeks" \in DOMAIN obj THEN obj.weeks
                 ELSE IF "tasks" \in DOMAIN obj THEN obj.tasks
                 ELSE <<>>
        completed == Cardinality({i \in 1..Len(items) :
                                      items[i].status = "completed"})
    IN  IF items = <<>> THEN 0 ELSE (100 * completed) \div Len(items)

\* the paths <<y, q, m, w>> of all weeks of the roadmap
WeekPaths(rm) ==
    UNION {UNION {UNION {
        {<<y, q, m, w>> :
            w \in 1..Len(rm.years[y].quarters[q].months[m].weeks)} :
        m \in 1..Len(rm.years[y].quarters[q].months)} :
        q \in 1..Len(rm.years[y].quarters)} :
        y \in 1..Len(rm.years)}

\* the entries get_upcoming_tasks appends for one week: one for each task of
\* the week that is not COMPLETED, in the order of the week.  The entry
\* f"{week.name} - {task.name} ({task.description})" is modelled by the
\* week number and the id of the task it describes.
WeekEntries(week) ==
    LET pending == {t \in 1..Len(week.tasks) :
                        week.tasks[t].status # "completed"}
        nth[k \in 0..Cardinality(pending)] ==
            IF k = 0 THEN <<>>
            ELSE LET t == CHOOSE u \in pending :
                              Cardinality({v \in pending : v < u}) = k - 1
                 IN  Append(nth[k - 1],
                            [week |-> week.week_num,
                             task |-> week.tasks[t].task_id])
    IN  nth[Cardinality(pending)]

RECURSIVE ScanWeeks(_, _, _)
\* the loop of get_upcoming_tasks over the weeks W still ahead: the length of
\* the list is looked at after the tasks of a whole week were appended
ScanWeeks(rm, W, upcoming) ==
    IF W = {} THEN upcoming
    ELSE LET w == FirstPath(W)
             week == rm.years[w[1]].quarters[w[2]].months[w[3]].weeks[w[4]]
             longer == upcoming \o WeekEntries(week)
         IN  IF Len(longer) >= 5 THEN longer
             ELSE ScanWeeks(rm, W \ {w}, longer)

\* RoadmapManager.get_upcoming_tasks()
get_upcoming_tasks ==
    /\ ret' = [op |-> "get_upcoming_tasks",
               value |-> ScanWeeks(roadmap, WeekPaths(roadmap), <<>>)]
    /\ UNCHANGED <<now, progress_vars, decks, roadmap, library_vars,
                   state_file, cli_vars>>

NextRoadmap == MarkTaskComplete \/ get_upcoming_tasks

SpecRoadmap == InitRoadmap /\ [][NextRoadmap]_vars

RECURSIVE Marked(_, _)
\* the roadmap after mark_task_complete was called with each id of the
\* sequence ids in turn
Marked(rm, ids) ==
    IF ids = <<>> THEN rm
    ELSE LET P == {p \in TaskPaths(rm) : TaskAt(rm, p).task_id = Head(ids)}
         IN  IF P = {} THEN Marked(rm, Tail(ids))
             ELSE CHOOSE last \in
                     {Marked(next, Tail(ids)) :
                         next \in {update_parent_status(
                                      Completed(rm, FirstPath(P)),
                                      FirstPath(P))}} : TRUE

\* the ids of all tasks of the default roadmap but those of the month
\* "Linear Algebra", in the order of the roadmap
OtherMonths ==
    <<"w1_t1", "w1_t2", "w1_t3", "w2_t1", "w2_t2", "w2_t3",
      "w3_t1", "w3_t2", "w3_t3", "w4_t1", "w4_t2", "w4_t3",
      "c1_t1", "c1_t2", "c2_t1", "c2_t2", "c3_t1", "c3_t2", "c4_t1", "c4_t2",
      "lr1", "lr2", "lr3", "log1", "log2", "log3", "fe1", "fe2", "fe3",
      "em1", "em2">>

\* the default roadmap, untouched or late in the plan: after every task
\* outside the month "Linear Algebra" was marked complete
InitRoadmapLate ==
    /\ now = 0
    /\ daily_sessions = <<>>
    /\ current_streak = 0
    /\ longest_streak = 0
    /\ last_session_date = None
    /\ total_hours = 0
    /\ decks = <<>>
    /\ roadmap \in {create_default_roadmap,
                    Marked(create_default_roadmap, OtherMonths)}
    /\ resources = <<>>
    /\ github_projects = <<>>
    /\ weekly_tips = <<>>
    /\ state_file = Missing
    /\ ret = [op |-> "init"]
    /\ ManagersOnly

SpecRoadmapLate == InitRoadmapLate /\ [][NextRoadmap]_vars

(***************************************************************************)
(* DailyWorkflow (src/learning_plan/daily_workflow.py).  workflow.state is *)
(* the dict self.state of the object, or None when no object could be      *)
(* built, and workflow.file the contents of learning_plan/current_day.json.*)
(***************************************************************************)
MaxWeek == 3         \* complete_day is followed up to the end of week MaxWeek

\* {"week": 1, "day": 1, "completed_days": []}
DefaultDay == [week |-> 1, day |-> 1, completed_days |-> <<>>]

\* f"week{week}_day{day}": the text is modelled by its four pieces, and two
\* keys are the same text exactly when their numbers are the same
day_key(week, day) == <<"week", week, "_day", day>>

\* x in seq
Contains(seq, x) == \E i \in 1..Len(seq) : seq[i] = x

\* the faulty step that starts the next week after day 6
mark_day_completed_six_days(state) ==
    LET key == day_key(state.week, state.day)
        done == IF Contains(state.completed_days, key) THEN state.completed_days
                ELSE Append(state.completed_days, key)
    IN  IF state.day + 1 > 6
        THEN [week |-> state.week + 1, day |-> 1, completed_days |-> done]
        ELSE [week |-> state.week, day |-> state.day + 1,
              completed_days |-> done]

\* mark_day_completed(): self.state before save_state() is called
mark_day_completed(state) ==
    LET key == day_key(state.week, state.day)
        done == IF Contains(state.completed_days, key) THEN state.completed_days
                ELSE Append(state.completed_days, key)
    IN  IF state.day + 1 > 7
        THEN [week |-> state.week + 1, day |-> 1, completed_days |-> done]
        ELSE [week |-> state.week, day |-> state.day + 1,
              completed_days |-> done]

\* json.dump(self.state, f): the document of the state dict
dump_day(state) ==
    json_dump([week |-> JsonNumber(state.week), day |-> JsonNumber(state.day),
               completed_days |->
                   [i \in 1..Len(state.completed_days) |->
                       JsonString(state.completed_days[i])]])

\* json.load(f) of current_day.json: the dict of the document
load_day(data) ==
    [week |-> PyValue(data.week), day |-> PyValue(data.day),
     completed_days |->
         [i \in 1..Len(data.completed_days) |-> PyValue(data.completed_days[i])]]

\* DailyWorkflow.load_state(): the state of a new object, or the exception
\* json.load raises for a file that holds no JSON
load_day_state(file) ==
    IF file = Missing THEN [raised |-> FALSE, state |-> DefaultDay]
    ELSE LET loaded == json_load(file)
         IN  IF loaded.raised THEN [raised |-> TRUE, state |-> None]
             ELSE [raised |-> FALSE, state |-> load_day(loaded.data)]

\* DailyWorkflow.save_state(): the write succeeds, or open() fails and the
\* file is as before, or the write fails part of the way; the exception is
\* not caught
save_day_state(file, state, written) ==
    CASE written = "all" -> dump_day(state)
      [] written = "nothing" -> file
      [] written = "part" -> Garbled

\* DailyWorkflow() in a directory without current_day.json
InitWorkflow ==
    /\ now = 0
    /\ daily_sessions = <<>>
    /\ current_streak = 0
    /\ longest_streak = 0
    /\ last_session_date = None
    /\ total_hours = 0
    /\ decks = <<>>
    /\ Standalone
    /\ workflow = [state |-> DefaultDay, file |-> Missing]
    /\ invocations = None
    /\ coaches = None
    /\ ret = [op |-> "init"]

\* DailyWorkflow(): a new process builds the object from the file
DailyWorkflow ==
    /\ LET loaded == load_day_state(workflow.file)
       IN  /\ workflow' = [workflow EXCEPT !.state = loaded.state]
           /\ ret' = [op |-> "DailyWorkflow", raised |-> loaded.raised]
    /\ UNCHANGED <<now, progress_vars, decks, roadmap, library_vars,
                   state_file, invocations, coaches>>

\* DailyWorkflow.complete_day()
complete_day ==
    /\ workflow.state # None
    /\ workflow.state.week <= MaxWeek
    /\ \E written \in {"all", "nothing", "part"} :
        /\ workflow' =
              [state |-> mark_day_completed(workflow.state),
               file |-> save_day_state(workflow.file,
                                       mark_day_completed(workflow.state),
                                       written)]
        /\ ret' = [op |-> "complete_day", week |-> workflow.state.week,
                   day |-> workflow.state.day, raised |-> written # "all"]
    /\ UNCHANGED <<now, progress_vars, decks, roadmap, library_vars,
                   state_file, invocations, coaches>>

\* DailyWorkflow.show_progress(): the position, the number of completed
\* days and the last five of them
show_progress ==
    /\ workflow.state # None
    /\ LET done == workflow.state.completed_days
       IN  ret' = [op |-> "show_progress",
                   current |-> <<workflow.state.week, workflow.state.day>>,
                   completed |-> Len(done),
                   days |-> SubSeq(done, Max(1, Len(done) - 4), Len(done))]
    /\ UNCHANGED <<now, progress_vars, decks, roadmap, library_vars,
                   state_file, cli_vars>>

\* DailyWorkflow.start_day(): the page of the day is opened if it exists
start_day ==
    /\ workflow.state # None
    /\ \E found \in BOOLEAN :
          ret' = [op |-> "start_day", opened |-> found]
    /\ UNCHANGED <<now, progress_vars, decks, roadmap, library_vars,
                   state_file, cli_vars>>

\* main() with --reset, for an object that could be built
reset ==
    /\ workflow.state # None
    /\ \E written \in {"all", "nothing", "part"} :
        /\ workflow' = [state |-> DefaultDay,
                        file |-> save_day_state(workflow.file, DefaultDay,
                                                written)]
        /\ ret' = [op |-> "reset", raised |-> written # "all"]
    /\ UNCHANGED <<now, progress_vars, decks, roadmap, library_vars,
                   state_file, invocations, coaches>>

NextWorkflow ==
    DailyWorkflow \/ complete_day \/ show_progress \/ start_day \/ reset

SpecWorkflow == InitWorkflow /\ [][NextWorkflow]_vars

(***************************************************************************)
(* Coach processes side by side (src/coach.py).  Every invocation of the   *)
(* CLI is a process of its own: CareerCoach() loads the whole document     *)
(* into the memory of the process, the command changes that copy and       *)
(* save() writes the whole document back.  invocations[i] holds the copy   *)
(* of process i and, for the claims, whether another process wrote the     *)
(* file since i loaded it (overlapped) and the task of the last command    *)
(* of i that was written (saved).                                          *)
(***************************************************************************)
Processes == {1, 2}

\* the task ids the commands of the processes name: two tasks and no task
Commands == {"w1_t1", "w1_t2", "w9_t9"}

Exited == [pc |-> "exited", state |-> None, overlapped |-> FALSE,
           saved |-> None]

\* the faulty save that leaves a document that is already there
save_state_if_absent(file, state, written) ==
    CASE written = "all" ->
            IF file[1] = "json" THEN file
            ELSE json_dump(serialize_state(state))
      [] written = "nothing" -> file
      [] written = "part" -> Garbled

\* StorageManager.save_state(state): the file after the call
save_state(file, state, written) ==
    CASE written = "all" -> json_dump(serialize_state(state))
      [] written = "nothing" -> file
      [] written = "part" -> Garbled

\* two terminals, no process running, no state file yet
InitOverlap ==
    /\ now = 0
    /\ daily_sessions = <<>>
    /\ current_streak = 0
    /\ longest_streak = 0
    /\ last_session_date = None
    /\ total_hours = 0
    /\ decks = <<>>
    /\ Standalone
    /\ workflow = None
    /\ invocations = [i \in Processes |-> Exited]
    /\ coaches = None
    /\ ret = [op |-> "init"]

\* CareerCoach(): process i starts and loads the document
CareerCoach(i) ==
    /\ invocations[i].pc = "exited"
    /\ \E found \in exists(state_file) :
        LET loaded == load_state(state_file, found)
        IN  /\ ~loaded.raised
            /\ invocations' =
                  [invocations EXCEPT ![i] =
                      [pc |-> "loaded", state |-> loaded.state,
                       overlapped |-> FALSE, saved |-> None]]
    /\ ret' = [op |-> "CareerCoach", process |-> i]
    /\ UNCHANGED <<now, progress_vars, decks, roadmap, library_vars,
                   state_file, workflow, coaches>>

\* CareerCoach.mark_task_complete(task_id) in process i, which then ends:
\* the document is saved only if the task was found
complete_task(i, task_id) ==
    /\ invocations[i].pc = "loaded"
    /\ LET mine == invocations[i].state
           found == \E p \in TaskPaths(mine.roadmap) :
                        TaskAt(mine.roadmap, p).task_id = task_id
           changed == [mine EXCEPT !.roadmap = Marked(@, <<task_id>>)]
       IN  \E written \in (IF found THEN {"all", "nothing", "part"}
                            ELSE {"nothing"}) :
            /\ state_file' = save_state(state_file, changed, written)
            /\ invocations' =
                  [j \in Processes |->
                      IF j = i
                      THEN [Exited EXCEPT
                              !.saved = IF written = "all" THEN task_id
                                        ELSE None]
                      ELSE IF written # "nothing" /\ invocations[j].pc = "loaded"
                      THEN [invocations[j] EXCEPT !.overlapped = TRUE]
                      ELSE invocations[j]]
            /\ ret' = [op |-> "mark_task_complete", process |-> i,
                       task_id |-> task_id, value |-> found,
                       written |-> written]
    /\ UNCHANGED <<now, progress_vars, decks, roadmap, library_vars, workflow,
                   coaches>>

Start == \E i \in Processes : CareerCoach(i)

CompleteTask == \E i \in Processes, task_id \in Commands : complete_task(i, task_id)

NextOverlap == Start \/ CompleteTask

SpecOverlap == InitOverlap /\ [][NextOverlap]_vars

(***************************************************************************)
(* The advisor (src/ai_coach.py) and the coach commands that use it        *)
(* (src/coach.py).  To compare runs under different conditions of the      *)
(* advisor, coaches holds one coach for each condition, and every step     *)
(* gives the same command, with the same answer of the service, to all of  *)
(* them: coaches[c].state is the application state of the coach under      *)
(* condition c, coaches[c].ai its AICoach object and coaches[c].out what   *)
(* its last call returned or printed.                                      *)
(***************************************************************************)
MaxAdvised == 3      \* sessions + resources + decks + projects + tasks done

\* the advisor works; no OPENAI_API_KEY is set; the key is set but the
\* openai package is not installed; every call of the service raises
Conditions == {"enabled", "disabled", "not_installed", "failing"}

\* the environment of a coach under condition c
Env(c) ==
    [api_key |-> IF c = "disabled" THEN None ELSE <<"key">>,
     openai |-> c # "not_installed",
     api |-> IF c = "failing" THEN "error" ELSE "ok"]

\* AICoach(): enabled and client after __init__
AICoach(env) ==
    LET enabled == env.api_key # None
    IN  IF enabled /\ env.openai
        THEN [enabled |-> TRUE, client |-> <<"OpenAI", env.api_key>>]
        ELSE [enabled |-> FALSE, client |-> None]

\* the methods of AICoach that ask the service
Requests ==
    {"analyze_progress", "generate_personalized_tips", "suggest_resources",
     "generate_flashcards", "interview_prep"}

\* the content the service answers with: plain text, or the text of a JSON
\* list
Replies == {"text", "cards"}

\* the faulty request that lets the exception of a failed call through
request_uncaught(ai, env, name, reply) ==
    IF ~ai.enabled THEN [raised |-> FALSE, value |-> None]
    ELSE IF env.api = "error" THEN [raised |-> TRUE, value |-> None]
    ELSE IF name = "generate_flashcards"
    THEN IF reply = "cards" THEN [raised |-> FALSE, value |-> <<"list", reply>>]
         ELSE [raised |-> TRUE, value |-> None]
    ELSE [raised |-> FALSE, value |-> <<"str", reply>>]

\* a request method of AICoach: None when the advisor is not enabled, None
\* when the call (or, for generate_flashcards, json.loads of the content)
\* raises, else the content
request(ai, env, name, reply) ==
    IF ~ai.enabled THEN [raised |-> FALSE, value |-> None]
    ELSE IF env.api = "error" THEN [raised |-> FALSE, value |-> None]
    ELSE IF name = "generate_flashcards"
    THEN IF reply = "cards" THEN [raised |-> FALSE, value |-> <<"list", reply>>]
         ELSE [raised |-> FALSE, value |-> None]
    ELSE [raised |-> FALSE, value |-> <<"str", reply>>]

\* CareerCoach.get_interview_prep() and CareerCoach.suggest_resources(topic):
\* what the command prints
advice(ai, env, name, reply) ==
    IF ~ai.enabled
    THEN [raised |-> FALSE, value |-> <<"AI Coach not enabled">>]
    ELSE LET answer == request(ai, env, name, reply)
         IN  IF answer.raised THEN answer
             ELSE IF answer.value # None THEN answer
             ELSE [raised |-> FALSE, value |-> <<"Could not generate">>]

\* the commands of the coach that change the application state
CoreCommands ==
    {[name |-> "mark_task_complete", task_id |-> "w1_t1"],
     [name |-> "mark_task_complete", task_id |-> "w1_t2"],
     [name |-> "log_session"], [name |-> "add_resource"],
     [name |-> "create_deck"], [name |-> "add_project"]}

\* the application state after a command of the coach at time t
run(state, cmd, t) ==
    CASE cmd.name = "mark_task_complete" ->
            [state EXCEPT !.roadmap = Marked(@, <<cmd.task_id>>)]
      [] cmd.name = "log_session" ->
            LET sessions == Append(state.progress.daily_sessions,
                                   DailySession(strftime(t), 2))
                streak == update_streak(sessions, state.progress.current_streak,
                                        state.progress.longest_streak, t)
            IN  [state EXCEPT !.progress =
                    [daily_sessions |-> sessions,
                     current_streak |-> streak.current_streak,
                     longest_streak |-> streak.longest_streak,
                     last_session_date |-> strftime(t),
                     total_hours |-> @.total_hours + 2]]
      [] cmd.name = "add_resource" ->
            [state EXCEPT !.resources =
                Append(@, Resource(Len(@) + 1, t))]
      [] cmd.name = "create_deck" ->
            [state EXCEPT !.flashcard_decks =
                Append(@, FlashcardDeck(NewDeckId(@)))]
      [] cmd.name = "add_project" ->
            [state EXCEPT !.github_projects =
                Append(@, GitHubProject(Len(@) + 1, t))]

\* the size of the scenario explored so far
Advised(state) ==
    Len(state.progress.daily_sessions) + Len(state.resources)
    + Len(state.flashcard_decks) + Len(state.github_projects)
    + Cardinality(Done(state.roadmap))

\* CareerCoach() without a state file, once under each condition
InitAdvisor ==
    /\ now = 0
    /\ daily_sessions = <<>>
    /\ current_streak = 0
    /\ longest_streak = 0
    /\ last_session_date = None
    /\ total_hours = 0
    /\ decks = <<>>
    /\ Standalone
    /\ workflow = None
    /\ invocations = None
    /\ coaches = [c \in Conditions |->
                    [state |-> create_default_state, ai |-> AICoach(Env(c)),
                     out |-> [raised |-> FALSE, value |-> None]]]
    /\ ret = [op |-> "init"]

\* a command that changes the application state, given to every coach
CoreCommand ==
    /\ \E cmd \in CoreCommands :
        /\ \A c \in Conditions : Advised(coaches[c].state) < MaxAdvised
        /\ coaches' = [c \in Conditions |->
                          [coaches[c] EXCEPT
                              !.state = run(@, cmd, now),
                              !.out = [raised |-> FALSE, value |-> <<"done">>]]]
        /\ ret' = [op |-> "command", cmd |-> cmd]
    /\ UNCHANGED <<now, progress_vars, decks, roadmap, library_vars,
                   state_file, workflow, invocations>>

\* a request method of AICoach, called on the advisor of every coach
AdvisorRequest ==
    /\ \E name \in Requests, reply \in Replies :
        /\ coaches' = [c \in Conditions |->
                          [coaches[c] EXCEPT
                              !.out = request(coaches[c].ai, Env(c), name,
                                              reply)]]
        /\ ret' = [op |-> "AICoach", name |-> name, reply |-> reply]
    /\ UNCHANGED <<now, progress_vars, decks, roadmap, library_vars,
                   state_file, workflow, invocations>>

\* get_interview_prep or suggest_resources, given to every coach
CoachAdvice ==
    /\ \E name \in {"interview_prep", "suggest_resources"},
          reply \in Replies :
        /\ coaches' = [c \in Conditions |->
                          [coaches[c] EXCEPT
                              !.out = advice(coaches[c].ai, Env(c), name,
                                             reply)]]
        /\ ret' = [op |-> "advice", name |-> name, reply |-> reply]
    /\ UNCHANGED <<now, progress_vars, decks, roadmap, library_vars,
                   state_file, workflow, invocations>>

NextAdvisor == CoreCommand \/ AdvisorRequest \/ CoachAdvice

SpecAdvisor == InitAdvisor /\ [][NextAdvisor]_vars

(***************************************************************************)
(* Streak claims.  The reference notions are stated over the set of        *)
(* calendar days that hold a session, not over the scan of the code.       *)
(***************************************************************************)
Recomputed == ret.op \in {"log_session", "_update_streak"}

\* the calendar days (ordinals) that hold at least one session
SessionDays == {date(strptime(d)) : d \in SessionDates(daily_sessions)}

\* length of the run of consecutive days of S that ends at day n of S
RunEndingAt(S, n) ==
    CHOOSE k \in 1..Cardinality(S) :
        /\ \A j \in 0..(k - 1) : (n - j) \in S
        /\ (n - k) \notin S

\* the longest run of consecutive days in S
MaxRun(S) ==
    IF S = {} THEN 0
    ELSE CHOOSE k \in 1..Cardinality(S) :
            /\ \E n \in S : RunEndingAt(S, n) = k
            /\ \A n \in S : RunEndingAt(S, n) <= k

LastDay(S) == CHOOSE n \in S : \A m \in S : m <= n

\* days from the most recent logged day to today
Staleness == date(now) - LastDay(SessionDays)

\* C1: after every streak recomputation (log_session or _update_streak),
\* whatever the history and the current day, longest_streak >= current_streak.
C1_LongestAtLeastCurrent ==
    Recomputed => longest_streak >= current_streak

\* a session logged today closes a run of two or more days
C1_Witness ==
    /\ ret.op = "log_session"
    /\ current_streak >= 2
    /\ longest_streak >= current_streak

\* C2: for a non-empty history, the recomputed current_streak is the length
\* of the run of consecutive days ending at the most recent logged day when
\* that day is today or yesterday, and 0 when it is two or more days back.
C2_CurrentStreak ==
    (Recomputed /\ daily_sessions # <<>>) =>
        /\ Staleness \in {0, 1} =>
              current_streak = RunEndingAt(SessionDays, LastDay(SessionDays))
        /\ Staleness >= 2 => current_streak = 0

\* three consecutive days, checked two days after the last one
C2_Witness ==
    /\ ret.op = "_update_streak"
    /\ Cardinality(SessionDays) = 3
    /\ RunEndingAt(SessionDays, LastDay(SessionDays)) = 3
    /\ Staleness = 2
    /\ current_streak = 0
    /\ longest_streak = 3

\* C3: the recomputed longest_streak is the longest run of consecutive
\* calendar days among the distinct session dates: a day with several
\* sessions counts once, a gap of more than a day closes a run, and the
\* order of the records in the list does not matter.
C3_LongestStreak ==
    Recomputed => longest_streak = MaxRun(SessionDays)

\* days 0, 1 and 4 of the window, appended out of order: longest run 2
C3_Witness ==
    /\ ret.op = "_update_streak"
    /\ Len(daily_sessions) = 3
    /\ SessionDays = {0, 1, 4}
    /\ StrLess(daily_sessions[2].date, daily_sessions[1].date)
    /\ longest_streak = 2

\* C4: recomputation on an empty list yields (0, 0) whatever the fields held
\* before; on a single session it yields longest_streak = 1 and
\* current_streak = 1 if the session is today or yesterday, 0 otherwise.
C4_EmptyAndSingle ==
    ret.op = "_update_streak" =>
        /\ daily_sessions = <<>> =>
              current_streak = 0 /\ longest_streak = 0
        /\ Len(daily_sessions) = 1 =>
              /\ longest_streak = 1
              /\ current_streak = IF Staleness \in {0, 1} THEN 1 ELSE 0

\* C10: a log_session call with a zero or negative duration changes nothing
\* of the progress state.
C10_RejectsNonPositiveDuration ==
    [][(ret'.op = "log_session" /\ ret'.duration_hours <= 0)
            => UNCHANGED progress_vars]_vars

\* sum(s.duration_hours for s in sessions)
SumHours(sessions) ==
    LET RECURSIVE Sum(_)
        Sum(seq) == IF seq = <<>> THEN 0 ELSE Head(seq).duration_hours + Sum(Tail(seq))
    IN  Sum(sessions)

\* C18: from a fresh ProgressState, the number of stored sessions is the
\* number of log_session calls made (none at the start, one more with each
\* call, no other change) and total_hours is the sum of the duration_hours
\* of the stored sessions.
C18_SessionsAndHours ==
    /\ Len(daily_sessions) = 0
    /\ [][Len(daily_sessions') =
            IF ret'.op = "log_session"
            THEN Len(daily_sessions) + 1
            ELSE Len(daily_sessions)]_vars
    /\ [](total_hours = SumHours(daily_sessions))

\* three calls, with a negative, a zero and a positive duration
C18_Witness ==
    /\ ret.op = "log_session"
    /\ Len(daily_sessions) = 3
    /\ {daily_sessions[i].duration_hours : i \in 1..3} = Durations
    /\ total_hours = 1

\* C19: log_session adds exactly one record, at the end of daily_sessions, and
\* every other step leaves daily_sessions as it is: no record already stored
\* is removed, moved or modified.
C19_AppendOnly ==
    [][IF ret'.op = "log_session"
       THEN daily_sessions' =
                Append(daily_sessions, [date |-> strftime(now),
                                        duration_hours |-> ret'.duration_hours])
       ELSE daily_sessions' = daily_sessions]_vars

\* a session was logged behind sessions of other, unordered dates
C19_Witness ==
    /\ ret.op = "log_session"
    /\ Len(daily_sessions) = 3
    /\ StrLess(daily_sessions[2].date, daily_sessions[1].date)
    /\ StrLess(daily_sessions[2].date, daily_sessions[3].date)
    /\ daily_sessions[3].date = strftime(now)

(***************************************************************************)
(* Review scheduler claims.                                                *)
(***************************************************************************)
\* no record of the list holds id in the field key
Unknown(seq, key, id) == \A i \in 1..Len(seq) : seq[i][key] # id

\* the card with this id, in a collection that holds it
CardById(ds, id) ==
    LET all == AllCards(ds)
    IN  all[CHOOSE i \in 1..Len(all) : all[i].card_id = id]

\* the step is a successful mark_card_review
Reviewed == ret'.op = "mark_card_review" /\ ret'.value = TRUE

\* the transition table of the specification, in hours
TableStatus(result) ==
    CASE result = "mastered" -> "mastered"
      [] result = "easy" -> "reviewing"
      [] result = "hard" -> "reviewing"
      [] result = "difficult" -> "difficult"

TableHours(result) ==
    CASE result = "mastered" -> 30 * 24
      [] result = "easy" -> 7 * 24
      [] result = "hard" -> 24
      [] result = "difficult" -> 6

\* C5: mark_card_review on an existing card with a recognized result sets
\* status and next_review from the table, whatever the previous status
\* (mastered: MASTERED, +30 days; easy: REVIEWING, +7 days; hard: REVIEWING,
\* +1 day; difficult: DIFFICULT, +6 hours).
C5_TransitionTable ==
    [][(Reviewed /\ ret'.result \in Recognized) =>
          LET card == CardById(decks', ret'.card_id)
          IN  /\ card.status = TableStatus(ret'.result)
              /\ card.next_review # None
              /\ fromisoformat(card.next_review) = now + TableHours(ret'.result)]_vars

\* a NEW card reviewed once, as easy: REVIEWING, review_count 1, due in 7 days
C5_Witness ==
    /\ ret.op = "mark_card_review"
    /\ ret.value = TRUE
    /\ ret.result = "easy"
    /\ LET card == CardById(decks, ret.card_id)
       IN  /\ card.status = "reviewing"
           /\ card.review_count = 1
           /\ card.next_review = isoformat(now + 7 * 24)

\* the tiers of the selection order, as the specification lists them
IsNew(card) == card.status = "new"

IsDifficult(card) == card.status = "difficult"

IsDue(card) ==
    /\ ~IsNew(card)
    /\ ~IsDifficult(card)
    /\ card.next_review # None
    /\ fromisoformat(card.next_review) <= now

Rank(card) ==
    IF IsNew(card) THEN 0
    ELSE IF IsDifficult(card) THEN 1
    ELSE IF IsDue(card) THEN 2
    ELSE 3

\* how often a card occurs in seq
Occurrences(seq, card) == Cardinality({i \in 1..Len(seq) : seq[i] = card})

FullOrder == get_cards_for_review(decks, Len(AllCards(decks)), now)

\* C7: for every integer limit, get_cards_for_review returns at most limit
\* cards (none for a limit below zero), and they are a prefix of the full
\* ordering.
C7_AtMostLimit ==
    ret.op = "get_cards_for_review" =>
        /\ Len(ret.value) <= Max(ret.num_cards, 0)
        /\ Len(ret.value) <= Len(FullOrder)
        /\ ret.value = SubSeq(FullOrder, 1, Len(ret.value))

\* C8: every successful mark_card_review moves next_review strictly forward:
\* the new next_review is later than the one the card had before the call.
\* (Stated for a review made at a later clock reading than the card's
\* previous review: the hour clock of the model cannot tell two reviews
\* within one hour apart.)
C8_StrictlyForward ==
    [][(Reviewed /\ ret'.result \in Recognized) =>
          LET card == CardById(decks, ret'.card_id)
              after == CardById(decks', ret'.card_id).next_review
          IN  (card.next_review # None /\ fromisoformat(card.last_reviewed) < now)
                 => /\ after # None
                    /\ fromisoformat(after) > fromisoformat(card.next_review)]_vars

\* C8 (amended): every successful mark_card_review with a recognized result
\* sets next_review strictly later than the time of the review, hence later
\* than the previous next_review whenever that one had already arrived.
C8_LaterThanReview ==
    [][(Reviewed /\ ret'.result \in Recognized) =>
          LET before == CardById(decks, ret'.card_id).next_review
              after == CardById(decks', ret'.card_id).next_review
          IN  /\ after # None
              /\ fromisoformat(after) > now
              /\ (before # None /\ fromisoformat(before) <= now)
                    => fromisoformat(after) > fromisoformat(before)]_vars

\* a card reviewed for the second time, a day after the first review
C8_Witness ==
    /\ ret.op = "mark_card_review"
    /\ ret.value = TRUE
    /\ ret.result \in Recognized
    /\ now > 0
    /\ LET card == CardById(decks, ret.card_id)
       IN  /\ card.review_count = 2
           /\ card.last_reviewed = isoformat(now)
           /\ fromisoformat(card.next_review) > now

\* C9: a result outside the four recognized ones is rejected before any
\* mutation: no card or deck changes and the call does not report success.
C9_RejectsUnknownResult ==
    [][(ret'.op = "mark_card_review" /\ ret'.result \notin Recognized) =>
          /\ decks' = decks
          /\ ret'.value = FALSE]_vars

\* C12: after any successful review the reviewed card is not NEW, and a card
\* that is not NEW is not NEW after any later step.
C12_NeverNewAgain ==
    [][LET before == AllCards(decks)
           after == AllCards(decks')
       IN  /\ Reviewed => CardById(decks', ret'.card_id).status # "new"
           /\ \A i \in 1..Len(before) :
                before[i].status # "new" =>
                    \E j \in 1..Len(after) :
                        /\ after[j].card_id = before[i].card_id
                        /\ after[j].status # "new"
      ]_vars

\* a NEW card was reviewed with a result outside the table and is REVIEWING
C12_Witness ==
    /\ ret.op = "mark_card_review"
    /\ ret.value = TRUE
    /\ ret.result \notin Recognized
    /\ LET card == CardById(decks, ret.card_id)
       IN  card.status = "reviewing" /\ card.review_count = 1

\* C13: every successful mark_card_review raises the review_count of the
\* reviewed card by exactly 1, whatever the result, and no step lowers the
\* review_count of any card.
C13_CountsEveryReview ==
    [][/\ Reviewed =>
            CardById(decks', ret'.card_id).review_count
                = CardById(decks, ret'.card_id).review_count + 1
       /\ LET before == AllCards(decks)
               after == AllCards(decks')
           IN  \A i \in 1..Len(before) :
                   \E j \in 1..Len(after) :
                       /\ after[j].card_id = before[i].card_id
                       /\ after[j].review_count >= before[i].review_count
      ]_vars

\* a second review, with a result outside the table, was counted
C13_Witness ==
    /\ ret.op = "mark_card_review"
    /\ ret.value = TRUE
    /\ ret.result \notin Recognized
    /\ CardById(decks, ret.card_id).review_count = 2
    /\ Len(AllCards(decks)) >= 2

\* C14: a DIFFICULT card reviewed with result difficult is DIFFICULT after the
\* review, and every get_cards_for_review result places each DIFFICULT card
\* before every REVIEWING card whose next_review is due.
C14_DifficultStaysAhead ==
    /\ [][(/\ Reviewed
           /\ ret'.result = "difficult"
           /\ CardById(decks, ret'.card_id).status = "difficult")
          => CardById(decks', ret'.card_id).status = "difficult"]_vars
    /\ [](ret.op = "get_cards_for_review" =>
            \A i, j \in 1..Len(ret.value) :
                (/\ IsDifficult(ret.value[i])
                 /\ ret.value[j].status = "reviewing"
                 /\ IsDue(ret.value[j]))
                => i < j)

\* a card reviewed twice as difficult is returned ahead of a REVIEWING card
\* that is due and that was added before it
C14_Witness ==
    /\ ret.op = "get_cards_for_review"
    /\ \E i, j \in 1..Len(ret.value) :
        /\ i < j
        /\ IsDifficult(ret.value[i])
        /\ ret.value[i].review_count >= 2
        /\ ret.value[j].status = "reviewing"
        /\ IsDue(ret.value[j])
        /\ ret.value[j].card_id < ret.value[i].card_id

\* C15: get_cards_for_review changes no deck and no card, and a call that
\* follows a call with the same limit, with no step in between, returns the
\* same list.
C15_PureQuery ==
    [][ret'.op = "get_cards_for_review" =>
          /\ UNCHANGED decks
          /\ (ret.op = "get_cards_for_review" /\ ret.num_cards = ret'.num_cards)
                => ret'.value = ret.value
      ]_vars

\* a query returned the cards of a deck in another order than the deck holds
\* them, and the deck still holds them in its own order
C15_Witness ==
    /\ ret.op = "get_cards_for_review"
    /\ Len(ret.value) = 3
    /\ ret.value[1].card_id = 3
    /\ Len(decks) = 1
    /\ \A i \in 1..3 : decks[1].cards[i].card_id = i

(***************************************************************************)
(* Claims about identifiers that name nothing.                             *)
(***************************************************************************)
\* C11: an operation that names a nonexistent id reports failure
\* (mark_card_review, mark_resource_status, update_project_status and
\* add_project_feature return False, add_card returns None) and leaves every
\* deck, card, resource and project exactly as it was.
C11_UnknownIdNoEffect ==
    [][/\ (/\ ret'.op = "mark_card_review"
           /\ Unknown(AllCards(decks), "card_id", ret'.card_id))
          => (ret'.value = FALSE /\ UNCHANGED <<decks, resources, github_projects>>)
       /\ (/\ ret'.op = "add_card"
           /\ Unknown(decks, "deck_id", ret'.deck_id))
          => (ret'.value = None /\ UNCHANGED <<decks, resources, github_projects>>)
       /\ (/\ ret'.op \in {"mark_resource_status"}
           /\ Unknown(resources, "resource_id", ret'.id))
          => (ret'.value = FALSE /\ UNCHANGED <<decks, resources, github_projects>>)
       /\ (/\ ret'.op \in {"update_project_status", "add_project_feature"}
           /\ Unknown(github_projects, "project_id", ret'.id))
          => (ret'.value = FALSE /\ UNCHANGED <<decks, resources, github_projects>>)
      ]_vars

\* a feature of a project that does not exist was named while a deck, a
\* resource and a project exist
C11_Witness ==
    /\ ret.op = "add_project_feature"
    /\ ret.feature \in valid_features
    /\ ret.value = FALSE
    /\ Unknown(github_projects, "project_id", ret.id)
    /\ decks # <<>> /\ resources # <<>> /\ github_projects # <<>>

(***************************************************************************)
(* Persistence claims.                                                     *)
(***************************************************************************)
\* C16: serializing the application state, writing it, reading it and
\* deserializing it (save_state followed by load_state) gives back the same
\* progress state (sessions, streaks, total_hours, last_session_date) and the
\* same decks and cards (status, review_count, last_reviewed, next_review,
\* total_reviews).
C16_RoundTrip ==
    LET loaded == load_state(json_dump(serialize_state(AppState)), "True")
    IN  /\ ~loaded.raised
        /\ loaded.state.progress = ProgressState
        /\ loaded.state.flashcard_decks = decks

\* a process started over a stored state that holds a session and a reviewed
\* card, and its managers hold what the file holds
C16_Witness ==
    /\ ret.op = "load_state"
    /\ state_file[1] = "json"
    /\ state_file = json_dump(serialize_state(AppState))
    /\ daily_sessions # <<>>
    /\ \E i \in 1..Len(AllCards(decks)) :
          /\ AllCards(decks)[i].status # "new"
          /\ AllCards(decks)[i].next_review # None

\* C17: load_state never raises, and over a state file that is missing, that
\* cannot be read or that holds no JSON it returns the default state;
\* save_state never raises, whether the write succeeds or not, and leaves the
\* state in memory unchanged.
C17_LoadAndSaveNeverRaise ==
    [][/\ ret'.op = "load_state" =>
            /\ ~ret'.raised
            /\ state_file \in {Missing, Unreadable, Inaccessible, Garbled} =>
                  AppState' = create_default_state
       /\ ret'.op = "save_state" =>
            /\ ~ret'.raised
            /\ UNCHANGED <<roadmap, progress_vars, decks, library_vars>>
      ]_vars

(***************************************************************************)
(* Roadmap claims.                                                         *)
(***************************************************************************)
\* C20: mark_task_complete with the id of a task of the roadmap returns True
\* and leaves that task COMPLETED and every other task with the status it
\* had; with an id of no task it returns False and leaves the roadmap, and so
\* every status in it, unchanged.
C20_MarkTaskComplete ==
    [][ret'.op = "mark_task_complete" =>
          LET id == ret'.task_id
              paths == TaskPaths(roadmap)
          IN  IF \E p \in paths : TaskAt(roadmap, p).task_id = id
              THEN /\ ret'.value = TRUE
                   /\ TaskPaths(roadmap') = paths
                   /\ \A p \in paths :
                        /\ TaskAt(roadmap', p).task_id = TaskAt(roadmap, p).task_id
                        /\ TaskAt(roadmap', p).status =
                              IF TaskAt(roadmap, p).task_id = id
                              THEN "completed"
                              ELSE TaskAt(roadmap, p).status
              ELSE /\ ret'.value = FALSE
                   /\ roadmap' = roadmap
      ]_vars

\* the only task of a week was completed, which completed the week, while
\* of the tasks of the first week of the month one is completed and one is not
C20_Witness ==
    /\ ret.op = "mark_task_complete"
    /\ ret.task_id = "v4_t1"
    /\ ret.value = TRUE
    /\ TaskAt(roadmap, <<1, 1, 2, 4, 1>>).status = "completed"
    /\ WeekAt(roadmap, <<1, 1, 2, 4, 1>>).status = "completed"
    /\ TaskAt(roadmap, <<1, 1, 2, 1, 1>>).status = "completed"
    /\ TaskAt(roadmap, <<1, 1, 2, 1, 2>>).status = "not_started"
    /\ WeekAt(roadmap, <<1, 1, 2, 1, 1>>).status = "not_started"

\* C21: on the default roadmap the completion percentage of year 1 is 0
\* while no task is complete, and right after mark_task_complete marked a
\* task of year 1 it is greater than 0.
C21_YearOneCompletion ==
    /\ Done(roadmap) = {} => calculate_completion(roadmap.years[1]) = 0
    /\ (/\ ret.op = "mark_task_complete"
        /\ ret.value = TRUE
        /\ \E p \in TaskPaths(roadmap) :
              p[1] = 1 /\ TaskAt(roadmap, p).task_id = ret.task_id)
       => calculate_completion(roadmap.years[1]) > 0

\* the tasks of the roadmap that are not COMPLETED, as paths
Pending(rm) == TaskPaths(rm) \ Done(rm)

\* the k-th of the paths P in the order of the roadmap
NthPath(P, k) ==
    CHOOSE p \in P : Cardinality({r \in P : PathLess(r, p)}) = k - 1

\* C24: get_upcoming_tasks returns at most 5 entries, and they are the first
\* not-completed tasks in the order of the roadmap, whatever the state of
\* the roadmap.
C24_TopFive ==
    ret.op = "get_upcoming_tasks" =>
        LET pending == Pending(roadmap)
            n == IF Cardinality(pending) < 5 THEN Cardinality(pending) ELSE 5
        IN  /\ Len(ret.value) <= 5
            /\ Len(ret.value) = n
            /\ \A k \in 1..n :
                    ret.value[k].task =
                        TaskAt(roadmap, NthPath(pending, k)).task_id

\* the paths of the years, quarters, months, weeks and tasks of the roadmap
Nodes(rm) ==
    {<<y>> : y \in 1..Len(rm.years)}
    \cup UNION {{<<y, q>> : q \in 1..Len(rm.years[y].quarters)} :
                y \in 1..Len(rm.years)}
    \cup {SubSeq(w, 1, 3) : w \in WeekPaths(rm)}
    \cup WeekPaths(rm) \cup TaskPaths(rm)

\* the status of the year, quarter, month, week or task at path p
Status(rm, p) ==
    IF Len(p) = 1 THEN rm.years[p[1]].status
    ELSE IF Len(p) = 2 THEN rm.years[p[1]].quarters[p[2]].status
    ELSE IF Len(p) = 3 THEN rm.years[p[1]].quarters[p[2]].months[p[3]].status
    ELSE IF Len(p) = 4 THEN WeekAt(rm, p).status
    ELSE TaskAt(rm, p).status

\* c is a child of p: a quarter of the year, a month of the quarter, a week
\* of the month or a task of the week
ChildOf(c, p) == Len(c) = Len(p) + 1 /\ SubSeq(c, 1, Len(p)) = p

\* C26: after any sequence of mark_task_complete calls on the default
\* roadmap a week, month, quarter or year is COMPLETED only if all its
\* children (tasks, weeks, months, quarters) are COMPLETED, and no status
\* of the roadmap ever changes back from COMPLETED.
C26_CompletedOnlyWithChildren ==
    /\ [](\A nodes \in {Nodes(roadmap)} : \A p \in nodes :
            Status(roadmap, p) = "completed" =>
                \A c \in nodes :
                    ChildOf(c, p) => Status(roadmap, c) = "completed")
    /\ [][\A nodes \in {Nodes(roadmap)} : \A p \in nodes :
            Status(roadmap, p) = "completed" =>
                /\ p \in Nodes(roadmap')
                /\ Status(roadmap', p) = "completed"]_vars

\* the last task of the month "Linear Algebra" was marked complete when all
\* other tasks of the quarter were, which completed its week, the month and
\* the quarter, while the year has quarters that are not COMPLETED
C26_Witness ==
    /\ ret.op = "mark_task_complete"
    /\ ret.value = TRUE
    /\ ret.task_id \in {"v1_t1", "v4_t1"}
    /\ Status(roadmap, <<1, 1, 2>>) = "completed"
    /\ Status(roadmap, <<1, 1>>) = "completed"
    /\ Status(roadmap, <<1, 2>>) = "completed"
    /\ Status(roadmap, <<1, 3>>) = "not_started"
    /\ Status(roadmap, <<1>>) = "not_started"

\* C27: once every task of the default roadmap has been marked complete
\* with mark_task_complete, every week, month, quarter and year of the
\* roadmap has status COMPLETED.
C27_AllTasksCompleteAll ==
    Pending(roadmap) = {} =>
        \A p \in Nodes(roadmap) : Status(roadmap, p) = "completed"

\* C25: in every reachable state, also after calendar days passed without a
\* session being logged, the stored current_streak (the value the status
\* and progress commands print) is 0 whenever the most recent session is
\* two or more days before today.
C25_StaleStreakIsZero ==
    (daily_sessions # <<>> /\ Staleness >= 2) => current_streak = 0

\* C29: over any sequence of log_session calls made on calendar days that
\* never go back, the stored longest_streak never decreases, and right
\* after each log_session current_streak >= 1.
C29_LongestNeverDecreases ==
    /\ [][longest_streak' >= longest_streak]_vars
    /\ [](ret.op = "log_session" => current_streak >= 1)

\* a session was logged after a gap that ended a streak of two days: the
\* current streak starts again at 1 and the longest streak is kept
C29_Witness ==
    /\ ret.op = "log_session"
    /\ Len(daily_sessions) = 3
    /\ SessionDays = {date(now) - 3, date(now) - 2, date(now)}
    /\ current_streak = 1
    /\ longest_streak = 2

(***************************************************************************)
(* Deck claims.                                                            *)
(***************************************************************************)
RECURSIVE ReviewCounts(_)
\* the sum of review_count over a sequence of cards
ReviewCounts(cards) ==
    IF cards = <<>> THEN 0
    ELSE Head(cards).review_count + ReviewCounts(Tail(cards))

\* C28: for every deck, after any sequence of create_deck, add_card and
\* mark_card_review calls starting from no decks, deck.total_reviews equals
\* the sum of review_count over the cards of that deck.
C28_DeckTotalIsSumOfCards ==
    \A i \in 1..Len(decks) :
        decks[i].total_reviews = ReviewCounts(decks[i].cards)

\* two decks hold reviewed cards: a card of the second deck was just
\* reviewed, and the first deck holds a card that was reviewed twice
C28_Witness ==
    /\ ret.op = "mark_card_review"
    /\ ret.value = TRUE
    /\ Len(decks) >= 2
    /\ decks[2].total_reviews >= 1
    /\ \E c \in 1..Len(decks[2].cards) :
            decks[2].cards[c].card_id = ret.card_id
    /\ decks[1].total_reviews = 2
    /\ \E c \in 1..Len(decks[1].cards) : decks[1].cards[c].review_count = 2

(***************************************************************************)
(* Daily workflow claims.                                                  *)
(***************************************************************************)
\* C30: DailyWorkflow, starting from the default state (week 1, day 1,
\* nothing completed), keeps after any sequence of complete_day calls: day
\* is in 1..7 and week >= 1; completed_days has no duplicates and exactly
\* 7*(week-1) + (day-1) entries; the current (week, day) is not in
\* completed_days; and completing day 7 of week w moves to day 1 of week
\* w+1.
C30_DayCounter ==
    /\ [](workflow.state # None =>
            LET st == workflow.state
                done == st.completed_days
            IN  /\ st.day \in 1..7
                /\ st.week >= 1
                /\ \A i, j \in 1..Len(done) : done[i] = done[j] => i = j
                /\ Len(done) = 7 * (st.week - 1) + (st.day - 1)
                /\ \A i \in 1..Len(done) :
                        done[i] # <<"week", st.week, "_day", st.day>>)
    /\ [][(ret'.op = "complete_day" /\ workflow.state.day = 7) =>
            /\ workflow'.state.day = 1
            /\ workflow'.state.week = workflow.state.week + 1]_vars

\* day 7 of week 2 was just completed: the workflow stands at day 1 of week
\* 3 with fourteen completed days
C30_Witness ==
    /\ ret.op = "complete_day"
    /\ ret.week = 2
    /\ ret.day = 7
    /\ workflow.state.week = 3
    /\ workflow.state.day = 1
    /\ Len(workflow.state.completed_days) = 14

(***************************************************************************)
(* Claims about processes that run side by side.                           *)
(***************************************************************************)
\* the state a process would load from the file
FileState(file) ==
    load_state(file, CHOOSE found \in exists(file) : TRUE).state

\* the ids of the tasks that are COMPLETED in a roadmap
DoneIds(rm) == {TaskAt(rm, p).task_id : p \in Done(rm)}

\* C23: when two invocations overlap (each loads the whole document, changes
\* its own copy and saves the whole document) the document on disk after
\* both saved is the state saved by the later writer, so a change made only
\* by the earlier writer is lost; when the invocations run strictly one
\* after the other no change is lost.
C23_LastWriterWins ==
    [][(ret'.op = "mark_task_complete" /\ ret'.written = "all") =>
        LET i == ret'.process
            mine == invocations[i].state
            disk == DoneIds(FileState(state_file).roadmap)
            after == DoneIds(FileState(state_file').roadmap)
        IN  /\ FileState(state_file').progress = mine.progress
            /\ FileState(state_file').resources = mine.resources
            /\ FileState(state_file').flashcard_decks = mine.flashcard_decks
            /\ FileState(state_file').github_projects = mine.github_projects
            /\ after = DoneIds(mine.roadmap) \cup {ret'.task_id}
            /\ invocations[i].overlapped =>
                  \A t \in disk \ (DoneIds(mine.roadmap) \cup {ret'.task_id}) :
                      t \notin after
            /\ ~invocations[i].overlapped => disk \subseteq after
      ]_vars

\* process 1 saved task w1_t1 and ended while process 2 held a copy loaded
\* before; process 2 then saved task w1_t2, and the document on disk holds
\* w1_t2 but no longer w1_t1
C23_Witness ==
    /\ ret.op = "mark_task_complete"
    /\ ret.process = 2
    /\ ret.task_id = "w1_t2"
    /\ ret.written = "all"
    /\ invocations[1].pc = "exited"
    /\ invocations[1].saved = "w1_t1"
    /\ DoneIds(FileState(state_file).roadmap) = {"w1_t2"}

====
